---- MODULE Spec2Model ----
(***************************************************************************)
(* Workflow execution engine of weavr: WorkflowExecutor (executor.ts),     *)
(* RedisClient (redis.ts), ApprovalExecutor (approval-executor.ts), the    *)
(* node executors and the API routes that call them.                       *)
(*                                                                         *)
(* The durable store is modelled as two key/value maps (execution:<id>,    *)
(* approval:<id>).  Every engine run is a task whose in-memory context is  *)
(* separate from the persisted record; the task's steps are cut at the     *)
(* await points at which another request handler may run.  Store TTLs      *)
(* (1h / 24h) and the updatedAt/startedAt stamps are not modelled.         *)
(***************************************************************************)
EXTENDS Integers, Sequences, FiniteSets, TLC

\* ------------------------------------------------------------------ bounds
MaxResumes == 2         \* resume calls accepted in one behaviour
MaxTime == 2            \* the clock runs 0..MaxTime
EngineMaxIterations == 3 \* options.maxIterations given to the executor
MaxConfigRetries == 3   \* largest maxRetries a RetryHandler is configured with
MaxSpawnAgents == 4     \* largest maxAgents a spawn-agent node is configured with
MaxGraphEdges == 3      \* most edges of a workflow handed to validateWorkflow
MaxMarkers == 2         \* most marker substrings in one error message

\* --------------------------------------------------------- program constants
TimeoutMinutes == 1     \* ApprovalNodeConfig.timeoutMinutes of a timed gate (minimum allowed)
MaxLoopIterations == 1000 \* largest maxIterations LoopExecutor.validateConfig accepts
DefaultMaxRetries == 3  \* RetryHandler's maxRetries when its configuration gives none
ErrorHandlerMaxRetries == 3

DefaultRetryDelayMs == 1000

DefaultBackoffMultiplier == 2

DefaultAgentCount == 3  \* children of a spawn-agent node when the context names no count
MaxAgentsLimit == 10    \* largest maxAgents SpawnExecutor.validateConfig accepts

ExecIds == {"e1", "e2"}
Data == {"d1", "d2"}
NoNode == "null"
NoError == "none"
NoTime == -1

\* ------------------------------------------------------------ map helpers
EmptyMap == [x \in {} |-> 0]

Put(f, k, v) == [x \in (DOMAIN f) \cup {k} |-> IF x = k THEN v ELSE f[x]]

\* { ...a, ...b } : keys of b win
Spread(a, b) == [x \in (DOMAIN a) \cup (DOMAIN b) |-> IF x \in DOMAIN b THEN b[x] ELSE a[x]]

Lookup(f, k, dflt) == IF k \in DOMAIN f THEN f[k] ELSE dflt

SeqToSet(s) == {s[i] : i \in 1..Len(s)}

\* ---------------------------------------------------------------- workflows
Edge(s, t, c) == [source |-> s, target |-> t, condition |-> c]

\* nodes: in array order; type: node id -> node.type; edges in array order;
\* loopMax: loop config maxIterations; exitCond: loop config has exitCondition;
\* validCfg: approval config passes validateConfig; timed: approval has timeoutMinutes;
\* expr: what evaluating a condition node's config.expression does, when not plain:
\*   "raises"  - it passes validateConfig and throws in evaluateCondition
\*               (e.g. '{{amount}} > 1000' with amount unset, or 'x.constructor')
\*   "invalid" - validateConfig's trial evaluation throws (e.g. '{{amount}} >')
Workflows ==
  [ linear |->
      [nodes |-> <<"trg", "act", "agt">>,
       type |-> [trg |-> "trigger", act |-> "action", agt |-> "agent"],
       edges |-> <<Edge("trg", "act", ""), Edge("act", "agt", "")>>,
       loopMax |-> EmptyMap, exitCond |-> {}, validCfg |-> {}, timed |-> {}, expr |-> EmptyMap],
    gate |->
      [nodes |-> <<"trg", "act", "apr", "agt">>,
       type |-> [trg |-> "trigger", act |-> "action", apr |-> "human-approval", agt |-> "agent"],
       edges |-> <<Edge("trg", "act", ""), Edge("act", "apr", ""), Edge("apr", "agt", "")>>,
       loopMax |-> EmptyMap, exitCond |-> {}, validCfg |-> {"apr"}, timed |-> {"apr"}, expr |-> EmptyMap],
    badgate |->
      [nodes |-> <<"trg", "apr", "act">>,
       type |-> [trg |-> "trigger", apr |-> "human-approval", act |-> "action"],
       edges |-> <<Edge("trg", "apr", ""), Edge("apr", "act", "")>>,
       loopMax |-> EmptyMap, exitCond |-> {}, validCfg |-> {}, timed |-> {}, expr |-> EmptyMap],
    notrigger |->
      [nodes |-> <<"act", "agt">>,
       type |-> [act |-> "action", agt |-> "agent"],
       edges |-> <<Edge("act", "agt", "")>>,
       loopMax |-> EmptyMap, exitCond |-> {}, validCfg |-> {}, timed |-> {}, expr |-> EmptyMap],
    cond |->
      [nodes |-> <<"trg", "cnd", "act", "agt">>,
       type |-> [trg |-> "trigger", cnd |-> "condition", act |-> "action", agt |-> "agent"],
       edges |-> <<Edge("trg", "cnd", ""), Edge("cnd", "act", "true"), Edge("cnd", "agt", "false")>>,
       loopMax |-> EmptyMap, exitCond |-> {}, validCfg |-> {}, timed |-> {}, expr |-> EmptyMap],
    condchain |->
      [nodes |-> <<"trg", "cnd", "act">>,
       type |-> [trg |-> "trigger", cnd |-> "condition", act |-> "action"],
       edges |-> <<Edge("trg", "cnd", ""), Edge("cnd", "act", "")>>,
       loopMax |-> EmptyMap, exitCond |-> {}, validCfg |-> {}, timed |-> {}, expr |-> EmptyMap],
    loop |->
      [nodes |-> <<"trg", "lp", "act">>,
       type |-> [trg |-> "trigger", lp |-> "loop", act |-> "action"],
       edges |-> <<Edge("trg", "lp", ""), Edge("lp", "act", "")>>,
       loopMax |-> [lp |-> 3], exitCond |-> {}, validCfg |-> {}, timed |-> {}, expr |-> EmptyMap],
    overloop |->
      [nodes |-> <<"trg", "lp", "act">>,
       type |-> [trg |-> "trigger", lp |-> "loop", act |-> "action"],
       edges |-> <<Edge("trg", "lp", ""), Edge("lp", "act", "")>>,
       loopMax |-> [lp |-> 6], exitCond |-> {}, validCfg |-> {}, timed |-> {}, expr |-> EmptyMap],
    cycle |->
      [nodes |-> <<"trg", "lp", "act">>,
       type |-> [trg |-> "trigger", lp |-> "loop", act |-> "action"],
       edges |-> <<Edge("trg", "lp", ""), Edge("lp", "act", ""), Edge("act", "lp", "")>>,
       loopMax |-> [lp |-> 2], exitCond |-> {}, validCfg |-> {}, timed |-> {}, expr |-> EmptyMap],
    loopedges |->
      [nodes |-> <<"trg", "lp", "act", "agt">>,
       type |-> [trg |-> "trigger", lp |-> "loop", act |-> "action", agt |-> "agent"],
       edges |-> <<Edge("trg", "lp", ""), Edge("lp", "act", "continue"),
                   Edge("lp", "agt", "exit")>>,
       loopMax |-> [lp |-> 1], exitCond |-> {}, validCfg |-> {}, timed |-> {}, expr |-> EmptyMap],
    condraise |->
      [nodes |-> <<"trg", "cnd", "act", "agt">>,
       type |-> [trg |-> "trigger", cnd |-> "condition", act |-> "action", agt |-> "agent"],
       edges |-> <<Edge("trg", "cnd", ""), Edge("cnd", "act", "true"), Edge("cnd", "agt", "false")>>,
       loopMax |-> EmptyMap, exitCond |-> {}, validCfg |-> {}, timed |-> {},
       expr |-> [cnd |-> "raises"]],
    condbad |->
      [nodes |-> <<"trg", "cnd", "act", "agt">>,
       type |-> [trg |-> "trigger", cnd |-> "condition", act |-> "action", agt |-> "agent"],
       edges |-> <<Edge("trg", "cnd", ""), Edge("cnd", "act", "true"), Edge("cnd", "agt", "false")>>,
       loopMax |-> EmptyMap, exitCond |-> {}, validCfg |-> {}, timed |-> {},
       expr |-> [cnd |-> "invalid"]],
    guarded |->
      [nodes |-> <<"trg", "act", "agt">>,
       type |-> [trg |-> "trigger", act |-> "action", agt |-> "agent"],
       edges |-> <<Edge("trg", "act", ""), Edge("act", "agt", "false")>>,
       loopMax |-> EmptyMap, exitCond |-> {}, validCfg |-> {}, timed |-> {}, expr |-> EmptyMap],
    longloop |->
      [nodes |-> <<"trg", "lp", "act">>,
       type |-> [trg |-> "trigger", lp |-> "loop", act |-> "action"],
       edges |-> <<Edge("trg", "lp", ""), Edge("lp", "act", "")>>,
       loopMax |-> [lp |-> 10], exitCond |-> {"lp"}, validCfg |-> {}, timed |-> {}, expr |-> EmptyMap],
    diamond |->
      [nodes |-> <<"trg", "act", "agt", "jn">>,
       type |-> [trg |-> "trigger", act |-> "action", agt |-> "agent", jn |-> "action"],
       edges |-> <<Edge("trg", "act", ""), Edge("trg", "agt", ""), Edge("act", "jn", ""),
                   Edge("agt", "jn", "")>>,
       loopMax |-> EmptyMap, exitCond |-> {}, validCfg |-> {}, timed |-> {}, expr |-> EmptyMap],
    forkgate |->
      [nodes |-> <<"trg", "apr", "act">>,
       type |-> [trg |-> "trigger", apr |-> "human-approval", act |-> "action"],
       edges |-> <<Edge("trg", "apr", ""), Edge("trg", "act", "")>>,
       loopMax |-> EmptyMap, exitCond |-> {}, validCfg |-> {"apr"}, timed |-> {}, expr |-> EmptyMap] ]

WorkflowIds == DOMAIN Workflows

NodeSet(w) == SeqToSet(Workflows[w].nodes)

TypeOf(w, n) == Workflows[w].type[n]


\* ------------------------------------------------------- graph navigation
\* workflow.nodes.find(node => node.type === 'trigger')
FindStartNode(w) ==
  LET ns == Workflows[w].nodes
      idx == {i \in 1..Len(ns) : TypeOf(w, ns[i]) = "trigger"}
  IN IF idx = {} THEN NoNode
     ELSE ns[CHOOSE i \in idx : \A j \in idx : i <= j]

RECURSIVE TargetsOf(_, _)
\* edges (in array order) mapped to their target node, unknown targets dropped
TargetsOf(w, es) ==
  IF es = <<>> THEN <<>>
  ELSE (IF Head(es).target \in NodeSet(w) THEN <<Head(es).target>> ELSE <<>>)
       \o TargetsOf(w, Tail(es))

OutgoingEdges(w, n) == SelectSeq(Workflows[w].edges, LAMBDA e : e.source = n)

\* mutant: the edges are filtered by their target instead of their source
GetNextNodes_ByTarget(w, n) ==
  TargetsOf(w, SelectSeq(Workflows[w].edges, LAMBDA e : e.target = n))

GetNextNodes(w, n) == TargetsOf(w, OutgoingEdges(w, n))

IsTrueEdge(e) == e.condition = "" \/ e.condition = "true" \/ e.condition = "True"

IsFalseEdge(e) == e.condition = "false" \/ e.condition = "False"

\* mutant: the guards are ignored and every outgoing edge is followed
GetConditionalNextNodes_AllEdges(w, n, conditionResult) == GetNextNodes(w, n)

GetConditionalNextNodes(w, n, conditionResult) ==
  IF conditionResult
  THEN TargetsOf(w, SelectSeq(OutgoingEdges(w, n), IsTrueEdge))
  ELSE TargetsOf(w, SelectSeq(OutgoingEdges(w, n), IsFalseEdge))

\* LoopExecutor.getNextNodes: the edges that leave the loop
IsExitEdge(e) == e.condition = "exit" \/ e.condition = "false"

\* LoopExecutor.getNextNodes: the edges that continue the loop
IsContinueEdge(e) == e.condition = "continue" \/ e.condition = "true" \/ e.condition = ""

\* LoopExecutor.getNextNodes(node, workflow, shouldContinue); the engine never calls it
LoopGetNextNodes(w, n, shouldContinue) ==
  IF shouldContinue
  THEN TargetsOf(w, SelectSeq(OutgoingEdges(w, n), IsContinueEdge))
  ELSE TargetsOf(w, SelectSeq(OutgoingEdges(w, n), IsExitEdge))

\* ------------------------------------------------------ validateWorkflow
\* a workflow as validateWorkflow sees it: g.nodes the node ids, g.type their
\* types, g.edges the edges in array order
EdgeEnds(g) ==
  {g.edges[i].source : i \in 1..Len(g.edges)} \cup {g.edges[i].target : i \in 1..Len(g.edges)}

MissingTrigger == [kind |-> "Workflow must have at least one trigger node", node |-> "none"]

NotConnected(n) == [kind |-> "Node is not connected to the workflow", node |-> n]

\* mutant: a workflow without a trigger passes
TriggerErrors_None(g) == {}

\* validateWorkflow: the check for a trigger node
TriggerErrors(g) ==
  IF \E n \in g.nodes : g.type[n] = "trigger" THEN {} ELSE {MissingTrigger}

\* validateWorkflow: the check for orphaned nodes; connectedNodeIds holds the
\* source and the target of every edge
OrphanErrors(g) ==
  {NotConnected(n) : n \in {m \in g.nodes : m \notin EdgeEnds(g) /\ g.type[m] # "trigger"}}

RECURSIVE GraphReach(_, _, _)
\* the ids reached from the set S along at most k further edges
GraphReach(g, S, k) ==
  IF k = 0 THEN S
  ELSE GraphReach(g, S \cup {g.edges[i].target : i \in {j \in 1..Len(g.edges) :
                                                         g.edges[j].source \in S}}, k - 1)

\* LoopExecutor.detectCycles(workflow).length > 0: the depth-first search from
\* every node meets an id that is on its own path
DetectCycles(g) ==
  \E n \in GraphReach(g, g.nodes, Len(g.edges)) :
     \E i \in 1..Len(g.edges) :
        /\ g.edges[i].source = n
        /\ n \in GraphReach(g, {g.edges[i].target}, Len(g.edges))

\* path.indexOf(nodeId), counted from 1; 0: not in the path
IndexOf(path, n) ==
  IF \E i \in 1..Len(path) : path[i] = n
  THEN CHOOSE i \in 1..Len(path) : path[i] = n /\ \A j \in 1..(i - 1) : path[j] # n
  ELSE 0

\* mutant: the whole path is reported
CycleSlice_WholePath(path, n) == path

\* path.slice(path.indexOf(nodeId)); slice(-1) is the last element
CycleSlice(path, n) ==
  IF IndexOf(path, n) = 0
  THEN SubSeq(path, Len(path), Len(path))
  ELSE SubSeq(path, IndexOf(path, n), Len(path))

\* workflow.edges.filter(edge => edge.source === nodeId), as targets in order
RECURSIVE OutgoingTargets(_, _, _)
OutgoingTargets(g, n, i) ==
  IF i > Len(g.edges) THEN <<>>
  ELSE (IF g.edges[i].source = n THEN <<g.edges[i].target>> ELSE <<>>)
          \o OutgoingTargets(g, n, i + 1)

RECURSIVE Dfs(_, _, _, _)
RECURSIVE DfsEach(_, _, _, _)
\* detectCycles: the closure dfs(nodeId, path); st holds visited, recursionStack
\* and cycles
Dfs(g, n, path, st) ==
  IF n \in st.recursionStack
  THEN [st EXCEPT !.cycles = Append(@, CycleSlice(path, n))]
  ELSE IF n \in st.visited
  THEN st
  ELSE LET entered == [st EXCEPT !.visited = @ \cup {n}, !.recursionStack = @ \cup {n}]
           after == DfsEach(g, OutgoingTargets(g, n, 1), path \o <<n>>, entered)
       IN [after EXCEPT !.recursionStack = @ \ {n}]

\* detectCycles: for (const edge of outgoingEdges) dfs(edge.target, [...path, nodeId])
DfsEach(g, targets, path, st) ==
  IF targets = <<>> THEN st
  ELSE DfsEach(g, Tail(targets), path, Dfs(g, Head(targets), path, st))

RECURSIVE DfsRoots(_, _, _)
\* detectCycles: for (const node of workflow.nodes) if (!visited.has(node.id)) dfs(node.id, [])
DfsRoots(g, order, st) ==
  IF order = <<>> THEN st
  ELSE DfsRoots(g, Tail(order),
                IF Head(order) \in st.visited THEN st ELSE Dfs(g, Head(order), <<>>, st))

\* the orders the array workflow.nodes can have
NodeOrders(nodes) ==
  {order \in [1..Cardinality(nodes) -> nodes] :
      \A i, j \in 1..Cardinality(nodes) : order[i] = order[j] => i = j}

\* LoopExecutor.detectCycles(workflow), workflow.nodes in the given order
DetectCyclesList(g, order) ==
  DfsRoots(g, order, [visited |-> {}, recursionStack |-> {}, cycles |-> <<>>]).cycles

\* mutant: a cycle is an error
ValidateGraph_CyclesAreErrors(g) ==
  LET errors == TriggerErrors(g) \cup OrphanErrors(g)
                  \cup (IF DetectCycles(g) THEN {[kind |-> "Workflow contains cycles",
                                                  node |-> "none"]} ELSE {})
  IN [isValid |-> errors = {}, errors |-> errors,
      warnings |-> IF DetectCycles(g) THEN {"Workflow contains cycles"} ELSE {}]

\* WorkflowExecutor.validateWorkflow; warnings: what it writes with console.warn
ValidateGraph(g) ==
  LET errors == TriggerErrors(g) \cup OrphanErrors(g)
  IN [isValid |-> errors = {}, errors |-> errors,
      warnings |-> IF DetectCycles(g) THEN {"Workflow contains cycles"} ELSE {}]

\* WorkflowExecutor.validateWorkflow(...).isValid
ValidateWorkflow(w) ==
  ValidateGraph([nodes |-> NodeSet(w), type |-> Workflows[w].type,
                 edges |-> Workflows[w].edges]).isValid

\* ------------------------------------------------------------------- state
VARIABLES
  workflowStore,  \* keys workflow:<id> present in the store
  execStore,      \* key execution:<id>  -> persisted ExecutionContext
  approvalStore,  \* key approval:<id>   -> persisted ApprovalRequest
  task,           \* per execution id: the engine run driving it (in-memory)
  now,            \* wall clock
  startResp,      \* responses of POST /api/execute: {[executionId, run]}
  dispatched,     \* history: per execution id, the nodes handed to executeNode, in order
  returned,       \* history: per execution id, node -> data its last successful dispatch returned
  lastOp,         \* history: the last external call whose outcome is recorded
  resumes,        \* number of resume calls that re-entered traversal
  retry,          \* one RetryHandler.executeWithRetry call in progress
  spawn,          \* one SpawnExecutor.execute call in progress
  graph,          \* one WorkflowExecutor.validateWorkflow call: its argument and result
  decisions,      \* the approve() / reject() calls in progress on one pending request
  evaln,          \* one ConditionExecutor.execute call in progress
  classified      \* one error handed to WorkflowErrorHandler and to a RetryHandler

engineVars == <<workflowStore, execStore, approvalStore, task, now, startResp, dispatched,
                returned, lastOp, resumes>>

vars == <<workflowStore, execStore, approvalStore, task, now, startResp, dispatched, returned,
          lastOp, resumes, retry, spawn, graph, decisions, evaln, classified>>

NoCtx ==
  [workflowId |-> "none", executionId |-> "none", status |-> "none",
   currentNodeId |-> NoNode, stepResults |-> EmptyMap, variables |-> EmptyMap,
   nodeStatuses |-> EmptyMap, nodeVisitCounts |-> EmptyMap,
   error |-> NoError, completedAt |-> NoTime]

IdleTask ==
  [pc |-> "idle", ctx |-> NoCtx, stack |-> <<>>, visited |-> {}, cur |-> NoNode,
   resStatus |-> "none", resSuccess |-> FALSE, resError |-> NoError]

\* the outcome of an external call: which operation, on which id, whether it
\* succeeded, and the message of the error it threw
OpResult(op, id, ok, error) ==
  [op |-> op, id |-> id, ok |-> ok, error |-> error, arg |-> EmptyMap]

NoOp == OpResult("none", "none", FALSE, NoError)

Inputs == {EmptyMap, [amount |-> 1]}
Payloads == {EmptyMap, [amount |-> 2]}

\* no executeWithRetry call, no spawn step and no validateWorkflow call in progress
NoRetry ==
  [pc |-> "none", maxRetries |-> 0, retryDelayMs |-> 0,
   backoffMultiplier |-> [num |-> 0, den |-> 1], retryableErrors |-> {},
   attempt |-> 0, calls |-> 0, outcomes |-> <<>>, totalDelayMs |-> 0, delays |-> <<>>,
   result |-> [success |-> FALSE, attempts |-> 0, error |-> NoError, totalDelayMs |-> 0]]

\* a context variable that is not set
Undefined == -1

\* an entry of the list aggregateResults builds; NoEntry: none
NoEntry == [wrapper |-> FALSE, agentIndex |-> Undefined, result |-> "none"]

NoAggregate ==
  [strategy |-> "none", list |-> <<>>, result |-> NoEntry, confidence |-> <<0, 1>>,
   totalVotes |-> 0]

NoSpawnResult ==
  [success |-> FALSE, error |-> NoError, agentCount |-> 0, requestedCount |-> 0,
   aggregatedResult |-> NoAggregate, individualResults |-> <<>>]

NoSpawn ==
  [pc |-> "none", maxAgents |-> 0, strategy |-> "none",
   variables |-> [agentCount |-> Undefined, spawnCount |-> Undefined,
                  items |-> Undefined, data |-> Undefined],
   children |-> <<>>, out |-> NoSpawnResult]

NoGraph ==
  [pc |-> "none", nodes |-> {}, type |-> EmptyMap, edges |-> <<>>, cycles |-> <<>>,
   result |-> [isValid |-> FALSE, errors |-> {}, warnings |-> {}]]

\* no approve() / reject() call, no condition evaluation and no error
\* classification in progress
NoApproval == [executionId |-> "none", nodeId |-> NoNode, timeoutAt |-> NoTime]

\* a call of approve / reject that has not been issued
IdleCall ==
  [kind |-> "none", pc |-> "idle", pending |-> FALSE, approval |-> NoApproval,
   execution |-> NoCtx, success |-> FALSE, error |-> NoError]

NoDecisions == [target |-> "none", calls |-> [c \in {1, 2} |-> IdleCall]]

\* no expression under evaluation
NoEval ==
  [pc |-> "none", kind |-> "none",
   expr |-> [pattern |-> "none", parses |-> FALSE, trialThrows |-> FALSE,
             evalThrows |-> FALSE, value |-> FALSE],
   log |-> <<>>, out |-> [success |-> FALSE, result |-> FALSE, error |-> NoError]]

\* no error raised
NoClassified ==
  [pc |-> "none", message |-> {}, retryCount |-> 0, handled |-> FALSE, code |-> "none",
   shouldRetry |-> FALSE, shouldContinue |-> FALSE, attempted |-> FALSE, retried |-> FALSE]

EngineInit ==
  /\ workflowStore = WorkflowIds
  /\ execStore = EmptyMap
  /\ approvalStore = EmptyMap
  /\ task = [e \in ExecIds |-> IdleTask]
  /\ now = 0
  /\ startResp = {}
  /\ dispatched = [e \in ExecIds |-> <<>>]
  /\ returned = [e \in ExecIds |-> EmptyMap]
  /\ lastOp = NoOp
  /\ resumes = 0

Init ==
  /\ EngineInit
  /\ retry = NoRetry
  /\ spawn = NoSpawn
  /\ graph = NoGraph
  /\ decisions = NoDecisions
  /\ evaln = NoEval
  /\ classified = NoClassified

\* ------------------------------------------------------------ RedisClient
\* saveExecution: setex(`execution:${executionId}`, JSON.stringify(execution))
SaveExecution(store, ctx) == Put(store, ctx.executionId, ctx)

\* mutant: the engine does not write the context before it dispatches a node
SaveBeforeDispatch_Skipped(store, ctx) == store

\* executeFromNode: `await redisClient.saveExecution(context)` ahead of executeNode
SaveBeforeDispatch(store, ctx) == SaveExecution(store, ctx)

\* updateExecutionStatus: { ...execution, ...updates, status } written back;
\* the caller checks e \in DOMAIN store (otherwise the call throws)
UpdateExecutionStatus(store, e, status, updates) ==
  Put(store, e, Spread(Spread(store[e], updates), [status |-> status]))

DeleteKey(store, e) == [x \in (DOMAIN store) \ {e} |-> store[x]]

GetExecutionStatus(e) == IF e \in DOMAIN execStore THEN execStore[e] ELSE NoCtx


\* --------------------------------------------------------------- executors
Success(d) == [success |-> TRUE, data |-> d, error |-> NoError]

Failure(msg) == [success |-> FALSE, data |-> "empty", error |-> msg]

\* mutant: the loop stops one iteration early
LoopOutcomes_ExitEarly(w, n, ctx) ==
  IF Lookup(ctx.nodeVisitCounts, n, 0) + 1 >= Workflows[w].loopMax[n]
  THEN {Success("loop_exit")}
  ELSE {Success("loop_continue")}

\* LoopExecutor.execute: shouldContinue from config.maxIterations, the visit
\* count the engine has already incremented, and the exit condition
LoopOutcomes(w, n, ctx) ==
  LET maxIterations == Workflows[w].loopMax[n]
      newIterationCount == Lookup(ctx.nodeVisitCounts, n, 0) + 1
  IN IF maxIterations < 1 \/ maxIterations > MaxLoopIterations
     THEN {Failure("Invalid loop configuration")}
     ELSE IF newIterationCount > maxIterations
     THEN {Success("loop_exit")}
     ELSE IF n \in Workflows[w].exitCond
          THEN {Success("loop_exit"), Success("loop_continue")}
          ELSE {Success("loop_continue")}

\* ConditionExecutor.execute: validateConfig throws into the catch block
\* (success=false); evaluateCondition turns a throw into result=false
ConditionOutcomes(w, n) ==
  CASE Lookup(Workflows[w].expr, n, "ok") = "invalid" ->
         {Failure("Invalid condition configuration")}
    [] Lookup(Workflows[w].expr, n, "ok") = "raises" -> {Success("cond_false")}
    [] OTHER -> {Success("cond_true"), Success("cond_false")}

\* what executeNode can return for a node that is not an approval gate
NodeOutcomes(w, n, ctx) ==
  CASE TypeOf(w, n) = "trigger" -> {Success("trigger_data")}
    [] TypeOf(w, n) = "condition" -> ConditionOutcomes(w, n)
    [] TypeOf(w, n) = "loop" -> LoopOutcomes(w, n, ctx)
    [] OTHER -> {Success(d) : d \in Data} \cup {Failure("node_failed"), Failure("timeout")}

\* RetryHandler.getRetryConfigForNodeType(nodeType).maxRetries: the attempts its
\* executeWithRetry loop makes
MaxRetries(nodeType) ==
  CASE nodeType = "agent" -> 3
    [] nodeType = "action" -> 2
    [] nodeType = "trigger" -> 1
    [] OTHER -> 2

\* RetryHandler.isRetryableError under the node type's retryableErrors
IsRetryableError(nodeType, msg) ==
  CASE nodeType = "agent" -> msg \in {"timeout", "rate_limit", "temporary", "unavailable"}
    [] nodeType = "action" -> msg \in {"timeout", "network", "temporary"}
    [] nodeType = "trigger" -> msg \in {"temporary"}
    [] OTHER -> msg \in {"timeout", "temporary"}

\* ApprovalExecutor.execute: the request it stores
ApprovalRequestFor(w, n, ctx) ==
  [executionId |-> ctx.executionId, nodeId |-> n,
   timeoutAt |-> IF n \in Workflows[w].timed THEN now + TimeoutMinutes ELSE NoTime]

\* mutant: the gate writes its pending entry but leaves the status 'running'
ApprovalPausedStore_KeepsRunning(store, n, ctx) ==
  UpdateExecutionStatus(store, ctx.executionId, "running",
    [currentNodeId |-> n,
     stepResults |-> Put(ctx.stepResults, n, "pending_approval")])

\* ApprovalExecutor.execute: the execution record after its updateExecutionStatus
ApprovalPausedStore(store, n, ctx) ==
  UpdateExecutionStatus(store, ctx.executionId, "paused",
    [currentNodeId |-> n,
     stepResults |-> Put(ctx.stepResults, n, "pending_approval")])

\* --------------------------------------------------------- WorkflowExecutor
NewContext(w, input, eid) ==
  [workflowId |-> w, executionId |-> eid, status |-> "running",
   currentNodeId |-> NoNode, stepResults |-> EmptyMap, variables |-> input,
   nodeStatuses |-> EmptyMap, nodeVisitCounts |-> EmptyMap,
   error |-> NoError, completedAt |-> NoTime]

\* mutant: the result reports success whatever the final status
Returned_AlwaysSuccess(t, ctx) ==
  [t EXCEPT !.pc = "done", !.ctx = ctx, !.resStatus = ctx.status,
            !.resSuccess = TRUE, !.resError = ctx.error]

\* the value executeFromNode returns (lines 204-209)
Returned(t, ctx) ==
  [t EXCEPT !.pc = "done", !.ctx = ctx, !.resStatus = ctx.status,
            !.resSuccess = (ctx.status # "failed"), !.resError = ctx.error]

\* executeWorkflow up to the call of executeFromNode (or its catch block)
ExecuteWorkflowBegin(w, input, eid, explicit) ==
  LET ctx == NewContext(w, input, eid)
      saved == SaveExecution(execStore, ctx)
      startNode == FindStartNode(w)
  IN IF startNode = NoNode
     THEN /\ execStore' =
               IF explicit
               THEN UpdateExecutionStatus(saved, eid, "failed",
                      [error |-> "No trigger node found in workflow", completedAt |-> now])
               ELSE saved
          /\ task' = [task EXCEPT ![eid] =
               [IdleTask EXCEPT !.pc = "done", !.ctx = ctx, !.resStatus = "failed",
                                !.resSuccess = FALSE,
                                !.resError = "No trigger node found in workflow"]]
     ELSE /\ execStore' = saved
          /\ task' = [task EXCEPT ![eid] =
               [IdleTask EXCEPT !.pc = "loop", !.ctx = ctx, !.stack = <<startNode>>]]

\* one execution is started per behaviour: executions share only the store, under
\* keys made of their own id.  Ids are opaque and interchangeable, so the id
\* issued is the first one; the other one stays an id that was never issued.
FreshId(eid) == execStore = EmptyMap /\ eid = "e1"

\* the engine's start operation, called directly (library use, tests)
ExecuteWorkflow(w, input, eid, explicit) ==
  /\ FreshId(eid)
  /\ ExecuteWorkflowBegin(w, input, eid, explicit)
  /\ lastOp' = OpResult("start", eid, TRUE, NoError)
  /\ UNCHANGED <<retry, spawn, graph, decisions, evaln, classified, workflowStore, approvalStore, now, startResp, dispatched, returned, resumes>>

\* the executionId the route puts in its response
ResponseId(eid, generated) == generated

\* POST /api/execute
PostExecute(w, input, eid, generated) ==
  /\ FreshId(eid)
  /\ w \in workflowStore
  /\ ValidateWorkflow(w)
  /\ ExecuteWorkflowBegin(w, input, eid, FALSE)
  /\ startResp' = startResp \cup {[executionId |-> ResponseId(eid, generated), run |-> eid]}
  /\ lastOp' = OpResult("post_execute", eid, TRUE, NoError)
  /\ UNCHANGED <<retry, spawn, graph, decisions, evaln, classified, workflowStore, approvalStore, now, dispatched, returned, resumes>>


\* ------------------------------------------------- executeFromNode, by step
Active(e) == task[e].pc \in {"loop", "exec"}

\* mutant: the guard lets one more visit through
IterationLimitReached_OffByOne(visited, n, visitCount) ==
  n \in visited /\ visitCount > EngineMaxIterations

\* the guard against infinite loops (lines 131-137)
IterationLimitReached(visited, n, visitCount) ==
  n \in visited /\ visitCount >= EngineMaxIterations

\* loop head to the save before executeNode (lines 128-145), or the throw of
\* the iteration guard and the catch block (lines 210-221)
EngPop(e) ==
  LET t == task[e]
      ctx == t.ctx
      n == Head(t.stack)
      visitCount == Lookup(ctx.nodeVisitCounts, n, 0)
  IN /\ t.pc = "loop"
     /\ t.stack # <<>>
     /\ ctx.status = "running"
     /\ IF IterationLimitReached(t.visited, n, visitCount)
        THEN LET failed == [ctx EXCEPT !.status = "failed",
                                       !.error = "Maximum iterations exceeded",
                                       !.nodeStatuses = Put(@, n, "failed")]
             IN /\ execStore' = SaveExecution(execStore, failed)
                /\ task' = [task EXCEPT ![e] =
                     Returned([t EXCEPT !.cur = n, !.stack = Tail(t.stack)], failed)]
        ELSE LET running == [ctx EXCEPT !.nodeVisitCounts = Put(@, n, visitCount + 1),
                                        !.currentNodeId = n,
                                        !.nodeStatuses = Put(@, n, "running")]
             IN /\ execStore' = SaveBeforeDispatch(execStore, running)
                /\ task' = [task EXCEPT ![e] =
                     [t EXCEPT !.pc = "exec", !.ctx = running, !.cur = n,
                               !.stack = Tail(t.stack), !.visited = @ \cup {n}]]
     /\ UNCHANGED <<retry, spawn, graph, decisions, evaln, classified, workflowStore, approvalStore, now, startResp, dispatched, returned, lastOp,
                    resumes>>

\* the nodes pushed after a successful step (lines 176-190)
NextNodes(w, n, data) ==
  IF TypeOf(w, n) = "condition"
  THEN GetConditionalNextNodes(w, n, data = "cond_true")
  ELSE GetNextNodes(w, n)

\* mutant: the nodes are put at the back of the stack
Unshift_AtBack(stack, nodes) == stack \o nodes

\* executionStack.unshift(...nodes)
Unshift(stack, nodes) == nodes \o stack

\* mutant: the result is stored but the node's status stays 'running'
StoreResult_StatusKept(ctx, n, data) ==
  [ctx EXCEPT !.stepResults = Put(@, n, data)]

\* lines 157-159: the result is stored and the node is marked completed
StoreResult(ctx, n, data) ==
  [ctx EXCEPT !.stepResults = Put(@, n, data),
              !.nodeStatuses = Put(@, n, "completed")]

\* lines 150-195 once executeNode has returned `out` for node n
AfterDispatch(e, store, out) ==
  LET t == task[e]
      ctx == t.ctx
      n == t.cur
      w == ctx.workflowId
  IN IF ~out.success
     THEN LET failed == [ctx EXCEPT !.status = "failed", !.error = out.error,
                                    !.nodeStatuses = Put(@, n, "failed")]
          IN /\ execStore' = store
             /\ task' = [task EXCEPT ![e] = Returned(t, failed)]
     ELSE LET done == StoreResult(ctx, n, out.data)
          IN IF TypeOf(w, n) = "human-approval"
             THEN /\ execStore' = store
                  /\ task' = [task EXCEPT ![e] = Returned(t, [done EXCEPT !.status = "paused"])]
             ELSE IF TypeOf(w, n) = "loop" /\ out.data = "loop_continue"
             THEN /\ execStore' = store
                  /\ task' = [task EXCEPT ![e] =
                       [t EXCEPT !.ctx = done, !.pc = "loop", !.stack = Unshift(@, <<n>>)]]
             ELSE /\ execStore' = SaveExecution(store, done)
                  /\ task' = [task EXCEPT ![e] =
                       [t EXCEPT !.ctx = done, !.pc = "loop",
                                 !.stack = Unshift(@, NextNodes(w, n, out.data))]]

\* ApprovalExecutor.execute on the node in flight: (stores after it, its result)
ApprovalExecute(e) ==
  LET ctx == task[e].ctx
      n == task[e].cur
      w == ctx.workflowId
  IN IF n \notin Workflows[w].validCfg
     THEN [exec |-> execStore, appr |-> approvalStore,
           out |-> Failure("Invalid approval configuration")]
     ELSE LET appr == Put(approvalStore, e, ApprovalRequestFor(w, n, ctx))
          IN IF e \notin DOMAIN execStore
             THEN [exec |-> execStore, appr |-> appr, out |-> Failure("Execution not found")]
             ELSE [exec |-> ApprovalPausedStore(execStore, n, ctx), appr |-> appr,
                   out |-> Success("approval_request")]

\* executeNode and what follows it up to the next await of the loop
EngExec(e) ==
  LET t == task[e]
      n == t.cur
      w == t.ctx.workflowId
  IN /\ t.pc = "exec"
     /\ dispatched' = [dispatched EXCEPT ![e] = Append(@, n)]
     /\ IF TypeOf(w, n) = "human-approval"
        THEN LET r == ApprovalExecute(e)
             IN /\ approvalStore' = r.appr
                /\ AfterDispatch(e, r.exec, r.out)
                /\ returned' = IF r.out.success
                               THEN [returned EXCEPT ![e] = Put(@, n, r.out.data)]
                               ELSE returned
        ELSE \E out \in NodeOutcomes(w, n, t.ctx) :
                /\ approvalStore' = approvalStore
                /\ AfterDispatch(e, execStore, out)
                /\ returned' = IF out.success
                               THEN [returned EXCEPT ![e] = Put(@, n, out.data)]
                               ELSE returned
     /\ UNCHANGED <<retry, spawn, graph, decisions, evaln, classified, workflowStore, now, startResp, lastOp, resumes>>

\* the loop condition is false: lines 197-209
EngFinish(e) ==
  LET t == task[e]
      ctx == t.ctx
  IN /\ t.pc = "loop"
     /\ ~(t.stack # <<>> /\ ctx.status = "running")
     /\ IF ctx.status = "running" /\ t.stack = <<>>
        THEN LET completed == [ctx EXCEPT !.status = "completed", !.completedAt = now]
             IN /\ execStore' = SaveExecution(execStore, completed)
                /\ task' = [task EXCEPT ![e] = Returned(t, completed)]
        ELSE /\ execStore' = execStore
             /\ task' = [task EXCEPT ![e] = Returned(t, ctx)]
     /\ UNCHANGED <<retry, spawn, graph, decisions, evaln, classified, workflowStore, approvalStore, now, startResp, dispatched, returned, lastOp,
                    resumes>>


\* --------------------------------------------------------- external calls
\* mutant: the payload is merged under the stored variables (stored keys win)
ResumeVariables_StoredWin(variables, approvalData) == Spread(approvalData, variables)

\* context.variables = { ...context.variables, ...approvalData }
ResumeVariables(variables, approvalData) == Spread(variables, approvalData)

\* mutant: only a missing record is refused, whatever the status
ResumeRefusal_AnyStatus(e) ==
  IF e \notin DOMAIN execStore THEN "not_found" ELSE NoError

\* the error resumeExecution throws before its first write (lines 314-321)
ResumeRefusal(e) ==
  IF e \notin DOMAIN execStore THEN "not_found"
  ELSE IF GetExecutionStatus(e).status # "paused" THEN "not_paused"
  ELSE NoError

\* resumeExecution up to the call of executeFromNode
Resume(e, payload) ==
  IF ResumeRefusal(e) # NoError
  THEN /\ lastOp' = OpResult("resume", e, FALSE, ResumeRefusal(e))
       /\ UNCHANGED <<retry, spawn, graph, decisions, evaln, classified, workflowStore, execStore, approvalStore, task, now, startResp, dispatched,
                      returned, resumes>>
  ELSE LET merged == [execStore[e] EXCEPT !.variables = ResumeVariables(@, payload)]
           ctx == [merged EXCEPT !.status = "running"]
           w == ctx.workflowId
       IN IF w \notin workflowStore
          THEN /\ lastOp' = OpResult("resume", e, FALSE, "workflow_not_found")
               /\ UNCHANGED <<retry, spawn, graph, decisions, evaln, classified, workflowStore, execStore, approvalStore, task, now,
                              startResp, dispatched, returned, resumes>>
          ELSE /\ resumes < MaxResumes
               /\ resumes' = resumes + 1
               /\ execStore' = SaveExecution(execStore, ctx)
               /\ IF ctx.currentNodeId \notin NodeSet(w)
                  THEN /\ task' = task
                       /\ lastOp' = [OpResult("resume", e, FALSE, "current_node_not_found")
                                       EXCEPT !.arg = payload]
                  ELSE /\ task' = [task EXCEPT ![e] =
                            [IdleTask EXCEPT !.pc = "loop", !.ctx = ctx,
                                             !.stack = <<ctx.currentNodeId>>]]
                       /\ lastOp' = [OpResult("resume", e, TRUE, NoError)
                                       EXCEPT !.arg = payload]
               /\ UNCHANGED <<retry, spawn, graph, decisions, evaln, classified, workflowStore, approvalStore, now, startResp, dispatched,
                              returned>>

\* DELETE /api/workflows/[id].  The workflow key is read after the start only by
\* resume, so the deletion is taken only while an execution of w is paused.
DeleteWorkflow(w) ==
  /\ w \in workflowStore
  /\ \E e \in DOMAIN execStore :
        execStore[e].workflowId = w /\ execStore[e].status = "paused"
  /\ workflowStore' = workflowStore \ {w}
  /\ UNCHANGED <<retry, spawn, graph, decisions, evaln, classified, execStore, approvalStore, task, now, startResp, dispatched, returned,
                 lastOp, resumes>>

\* cancelExecution: returns false when updateExecutionStatus throws (not found)
Cancel(e) ==
  IF e \notin DOMAIN execStore
  THEN UNCHANGED vars
  ELSE /\ execStore' = UpdateExecutionStatus(execStore, e, "cancelled",
                                             [completedAt |-> now])
       /\ lastOp' = OpResult("cancel", e, TRUE, NoError)
       /\ UNCHANGED <<retry, spawn, graph, decisions, evaln, classified, workflowStore, approvalStore, task, now, startResp, dispatched, returned, resumes>>

\* new Date(approval.timeoutAt) < new Date()
Expired(approval) == approval.timeoutAt # NoTime /\ approval.timeoutAt < now

\* the updates approve() passes to updateExecutionStatus
ApproveUpdates(approval) == [stepResults |-> [x \in {approval.nodeId} |-> "approved"]]

\* the updates reject() passes to updateExecutionStatus
RejectUpdates(approval) ==
  [stepResults |-> [x \in {approval.nodeId} |-> "rejected"],
   error |-> "Approval rejected"]

\* ApprovalExecutor.approve (POST /api/approvals/[executionId]/approve)
Approve(e) ==
  IF e \notin DOMAIN approvalStore
  THEN UNCHANGED vars
  ELSE IF Expired(approvalStore[e])
  THEN /\ approvalStore' = DeleteKey(approvalStore, e)
       /\ lastOp' = OpResult("approve", e, FALSE, "Approval request has expired")
       /\ UNCHANGED <<retry, spawn, graph, decisions, evaln, classified, workflowStore, execStore, task, now, startResp, dispatched, returned, resumes>>
  ELSE IF e \notin DOMAIN execStore
  THEN UNCHANGED vars
  ELSE /\ execStore' = UpdateExecutionStatus(execStore, e, "running",
                                             ApproveUpdates(approvalStore[e]))
       /\ approvalStore' = DeleteKey(approvalStore, e)
       /\ lastOp' = OpResult("approve", e, TRUE, NoError)
       /\ UNCHANGED <<retry, spawn, graph, decisions, evaln, classified, workflowStore, task, now, startResp, dispatched, returned, resumes>>

\* ApprovalExecutor.reject (POST /api/approvals/[executionId]/reject)
Reject(e) ==
  IF e \notin DOMAIN approvalStore \/ e \notin DOMAIN execStore
  THEN UNCHANGED vars
  ELSE /\ execStore' = UpdateExecutionStatus(execStore, e, "failed",
                                             RejectUpdates(approvalStore[e]))
       /\ approvalStore' = DeleteKey(approvalStore, e)
       /\ lastOp' = OpResult("reject", e, TRUE, NoError)
       /\ UNCHANGED <<retry, spawn, graph, decisions, evaln, classified, workflowStore, task, now, startResp, dispatched, returned, resumes>>

\* time passes; the clock is read only against a pending request's timeoutAt, so
\* it is advanced only while a timed request is stored
Tick ==
  /\ now < MaxTime
  /\ \E e \in DOMAIN approvalStore : approvalStore[e].timeoutAt # NoTime
  /\ now' = now + 1
  /\ UNCHANGED <<retry, spawn, graph, decisions, evaln, classified, workflowStore, execStore, approvalStore, task, startResp, dispatched, returned,
                 lastOp, resumes>>

\* ------------------------------------------------------------ specification
Next ==
  \/ \E w \in WorkflowIds, input \in Inputs, eid \in ExecIds, explicit \in BOOLEAN :
        ExecuteWorkflow(w, input, eid, explicit)
  \/ \E w \in WorkflowIds, input \in Inputs, eid \in ExecIds, generated \in ExecIds :
        PostExecute(w, input, eid, generated)
  \/ \E e \in ExecIds : EngPop(e)
  \/ \E e \in ExecIds : EngExec(e)
  \/ \E e \in ExecIds : EngFinish(e)
  \/ \E e \in ExecIds, payload \in Payloads : Resume(e, payload)
  \/ \E e \in ExecIds : Cancel(e)
  \/ \E w \in WorkflowIds : DeleteWorkflow(w)
  \/ \E e \in ExecIds : Approve(e)
  \/ \E e \in ExecIds : Reject(e)
  \/ Tick

Spec == Init /\ [][Next]_vars

\* the engine's own steps are scheduled by the JavaScript runtime: a task that can
\* take a step eventually takes it.  External calls and the clock are not forced.
EngineStep == \E e \in ExecIds : EngPop(e) \/ EngExec(e) \/ EngFinish(e)

FairSpec == Spec /\ WF_vars(EngineStep)

\* the engine alone: runs are started and resumed and the engine takes its
\* steps, while no other request touches the store
TraversalNext ==
  \/ \E w \in WorkflowIds, input \in Inputs, eid \in ExecIds, explicit \in BOOLEAN :
        ExecuteWorkflow(w, input, eid, explicit)
  \/ \E w \in WorkflowIds, input \in Inputs, eid \in ExecIds, generated \in ExecIds :
        PostExecute(w, input, eid, generated)
  \/ \E e \in ExecIds : EngPop(e)
  \/ \E e \in ExecIds : EngExec(e)
  \/ \E e \in ExecIds : EngFinish(e)
  \/ \E e \in ExecIds, payload \in Payloads : Resume(e, payload)

TraversalFairSpec == Init /\ [][TraversalNext]_vars /\ WF_vars(EngineStep)

TypeOK ==
  /\ workflowStore \subseteq WorkflowIds
  /\ DOMAIN execStore \subseteq ExecIds
  /\ DOMAIN approvalStore \subseteq ExecIds
  /\ now \in 0..MaxTime
  /\ resumes \in 0..MaxResumes
  /\ \A e \in DOMAIN execStore :
        execStore[e].status \in {"running", "paused", "completed", "failed", "cancelled"}
  /\ \A e \in ExecIds : task[e].pc \in {"idle", "loop", "exec", "done"}


\* ------------------------------------------------------------ RetryHandler
\* what one invocation of the operation can do: resolve, or throw an Error with
\* one of these messages
OperationOutcomes == {"ok", "timeout", "network", "temporary", "invalid_input"}

\* the constructor's default retryableErrors
DefaultRetryableErrors == {"timeout", "network", "rate_limit", "temporary", "unavailable"}

NodeTypes == {"agent", "action", "trigger", "condition"}

\* a multiplier as a fraction: 1.5 is 3/2; Unset: the field is omitted
Fraction(num, den) == [num |-> num, den |-> den]

Unset == Fraction(0, 1)

\* RetryHandler.getRetryConfigForNodeType(nodeType).retryDelayMs
RetryDelayMsOf(nodeType) ==
  CASE nodeType = "agent" -> 2000
    [] nodeType = "action" -> 1000
    [] nodeType = "trigger" -> 500
    [] OTHER -> 1000

\* RetryHandler.getRetryConfigForNodeType(nodeType).backoffMultiplier
BackoffMultiplierOf(nodeType) ==
  CASE nodeType = "agent" -> Fraction(2, 1)
    [] nodeType = "action" -> Fraction(3, 2)
    [] nodeType = "trigger" -> Fraction(1, 1)
    [] OTHER -> Fraction(3, 2)

\* the retryDelayMs and backoffMultiplier of a partial configuration (0 and
\* Unset: omitted)
PartialDelays == {0, 500}

PartialMultipliers == {Unset, Fraction(3, 2)}

\* RetryHandler.getRetryConfigForNodeType
GetRetryConfigForNodeType(nodeType) ==
  [maxRetries |-> MaxRetries(nodeType),
   retryDelayMs |-> RetryDelayMsOf(nodeType),
   backoffMultiplier |-> BackoffMultiplierOf(nodeType),
   retryableErrors |-> {msg \in OperationOutcomes \cup DefaultRetryableErrors :
                           IsRetryableError(nodeType, msg)}]

\* the configurations a RetryHandler is constructed with: createForNode's, and
\* partial ones that give maxRetries only (0: maxRetries omitted or 0)
PartialConfigs ==
  {GetRetryConfigForNodeType(t) : t \in NodeTypes}
    \cup {[maxRetries |-> m, retryDelayMs |-> d, backoffMultiplier |-> b,
            retryableErrors |-> DefaultRetryableErrors] :
            m \in 0..MaxConfigRetries, d \in PartialDelays, b \in PartialMultipliers}

\* new RetryHandler(config): maxRetries: config.maxRetries || 3
NewRetryHandler(config) ==
  [maxRetries |-> IF config.maxRetries = 0 THEN DefaultMaxRetries ELSE config.maxRetries,
   retryDelayMs |-> IF config.retryDelayMs = 0 THEN DefaultRetryDelayMs
                    ELSE config.retryDelayMs,
   backoffMultiplier |-> IF config.backoffMultiplier = Unset
                         THEN Fraction(DefaultBackoffMultiplier, 1)
                         ELSE config.backoffMultiplier,
   retryableErrors |-> config.retryableErrors]

\* RetryHandler.isRetryableError under this handler's configuration
HandlerRetries(r, msg) == msg \in r.retryableErrors

RECURSIVE Pow(_, _)
\* Math.pow(b, k) for a whole exponent k >= 0
Pow(b, k) == IF k = 0 THEN 1 ELSE b * Pow(b, k - 1)

\* mutant: the exponent is the attempt number
BackoffDelay_ExponentAttempt(r, attempt) ==
  (r.retryDelayMs * Pow(r.backoffMultiplier.num, attempt))
     \div Pow(r.backoffMultiplier.den, attempt)

\* retryDelayMs * Math.pow(backoffMultiplier, attempt - 1); the quotient is exact
\* for the configurations above (the products are whole numbers of milliseconds)
BackoffDelay(r, attempt) ==
  (r.retryDelayMs * Pow(r.backoffMultiplier.num, attempt - 1))
     \div Pow(r.backoffMultiplier.den, attempt - 1)

\* mutant: every error is retried
AfterAttempt_RetriesAll(r, outcome) ==
  LET r1 == [r EXCEPT !.calls = @ + 1, !.outcomes = Append(@, outcome)]
  IN IF outcome = "ok"
     THEN [r1 EXCEPT !.pc = "done",
                     !.result = [success |-> TRUE, attempts |-> r.attempt, error |-> NoError,
                                 totalDelayMs |-> r.totalDelayMs]]
     ELSE IF r.attempt = r.maxRetries
     THEN [r1 EXCEPT !.pc = "done",
                     !.result = [success |-> FALSE, attempts |-> r.maxRetries,
                                 error |-> outcome, totalDelayMs |-> r.totalDelayMs]]
     ELSE [r1 EXCEPT !.pc = "delay",
                     !.totalDelayMs = @ + BackoffDelay(r, r.attempt),
                     !.delays = Append(@, BackoffDelay(r, r.attempt))]

\* executeWithRetry: one pass of the loop body, from `await operation()` to the
\* return, the break or the `await this.delay(delay)`
AfterAttempt(r, outcome) ==
  LET r1 == [r EXCEPT !.calls = @ + 1, !.outcomes = Append(@, outcome)]
  IN IF outcome = "ok"
     THEN [r1 EXCEPT !.pc = "done",
                     !.result = [success |-> TRUE, attempts |-> r.attempt, error |-> NoError,
                                 totalDelayMs |-> r.totalDelayMs]]
     ELSE IF ~HandlerRetries(r, outcome)
     THEN [r1 EXCEPT !.pc = "done",
                     !.result = [success |-> FALSE, attempts |-> r.attempt, error |-> outcome,
                                 totalDelayMs |-> r.totalDelayMs]]
     ELSE IF r.attempt = r.maxRetries
     THEN [r1 EXCEPT !.pc = "done",
                     !.result = [success |-> FALSE, attempts |-> r.maxRetries,
                                 error |-> outcome, totalDelayMs |-> r.totalDelayMs]]
     ELSE [r1 EXCEPT !.pc = "delay",
                     !.totalDelayMs = @ + BackoffDelay(r, r.attempt),
                     !.delays = Append(@, BackoffDelay(r, r.attempt))]

\* executeWithRetry called on a handler built from one of the configurations
RetryInit ==
  /\ EngineInit
  /\ \E config \in PartialConfigs :
        retry = [NoRetry EXCEPT !.pc = "attempt", !.attempt = 1,
                                !.maxRetries = NewRetryHandler(config).maxRetries,
                                !.retryDelayMs = NewRetryHandler(config).retryDelayMs,
                                !.backoffMultiplier = NewRetryHandler(config).backoffMultiplier,
                                !.retryableErrors = NewRetryHandler(config).retryableErrors]
  /\ spawn = NoSpawn
  /\ graph = NoGraph
  /\ decisions = NoDecisions
  /\ evaln = NoEval
  /\ classified = NoClassified

\* the operation is invoked and settles
RetryAttempt(outcome) ==
  /\ retry.pc = "attempt"
  /\ retry' = AfterAttempt(retry, outcome)
  /\ UNCHANGED <<engineVars, spawn, graph, decisions, evaln, classified>>

\* the delay elapses; attempt++ and the loop condition
RetryDelay ==
  /\ retry.pc = "delay"
  /\ retry' = IF retry.attempt + 1 <= retry.maxRetries
              THEN [retry EXCEPT !.pc = "attempt", !.attempt = @ + 1]
              ELSE [retry EXCEPT !.pc = "done", !.attempt = @ + 1,
                                 !.result = [success |-> FALSE, attempts |-> retry.maxRetries,
                                             error |-> retry.outcomes[Len(retry.outcomes)],
                                             totalDelayMs |-> retry.totalDelayMs]]
  /\ UNCHANGED <<engineVars, spawn, graph, decisions, evaln, classified>>

RetryNext ==
  \/ \E outcome \in OperationOutcomes : RetryAttempt(outcome)
  \/ RetryDelay

RetrySpec == RetryInit /\ [][RetryNext]_vars

\* ------------------------------------------------------------ SpawnExecutor
SpawnStrategies == {"first", "all", "majority"}

\* what a child's LLM response parses to: two truthy values and JSON false
ChildResults == {"A", "B", "false"}

Falsy(v) == v = "false"

Min(a, b) == IF a <= b THEN a ELSE b

\* a || b on two context variables holding numbers
OrElse(a, b) == IF a # Undefined /\ a # 0 THEN a ELSE b

\* SpawnExecutor.validateConfig(config).isValid; the prompt is always given
SpawnValidateConfig(sp) ==
  /\ sp.maxAgents >= 1
  /\ sp.maxAgents <= MaxAgentsLimit
  /\ sp.strategy \in SpawnStrategies

\* mutant: the list is consulted before the numeric count
DetermineAgentCount_ArrayFirst(maxAgents, variables) ==
  LET dynamicCount == OrElse(variables.agentCount, variables.spawnCount)
      itemsToProcess == IF variables.items # Undefined THEN variables.items
                        ELSE variables.data
  IN IF itemsToProcess # Undefined
     THEN Min(itemsToProcess, maxAgents)
     ELSE IF dynamicCount # Undefined /\ dynamicCount > 0
     THEN Min(dynamicCount, maxAgents)
     ELSE Min(DefaultAgentCount, maxAgents)

\* SpawnExecutor.determineAgentCount; items and data hold the length of the array
DetermineAgentCount(maxAgents, variables) ==
  LET dynamicCount == OrElse(variables.agentCount, variables.spawnCount)
      itemsToProcess == IF variables.items # Undefined THEN variables.items
                        ELSE variables.data
  IN IF dynamicCount # Undefined /\ dynamicCount > 0
     THEN Min(dynamicCount, maxAgents)
     ELSE IF itemsToProcess # Undefined
     THEN Min(itemsToProcess, maxAgents)
     ELSE Min(DefaultAgentCount, maxAgents)

\* spawnSingleAgent's data of child i (agentIndex i - 1) on success
ChildData(i, v) == [wrapper |-> TRUE, agentIndex |-> i - 1, result |-> v]

\* aggregateResults: result.data?.result || result.data
AggregateEntry(d) ==
  IF Falsy(d.result) THEN d
  ELSE [wrapper |-> FALSE, agentIndex |-> Undefined, result |-> d.result]

\* aggregateByMajority: votes are counted per JSON.stringify key; the first key,
\* in order of first occurrence, with the largest count wins.  confidence is
\* maxCount / results.length, kept as the pair <<maxCount, results.length>>
AggregateByMajority(results) ==
  LET Count(k) == Cardinality({i \in 1..Len(results) : results[i] = k})
      maxCount == CHOOSE c \in 1..Len(results) :
                    /\ \E i \in 1..Len(results) : Count(results[i]) = c
                    /\ \A i \in 1..Len(results) : Count(results[i]) <= c
      first == CHOOSE j \in 1..Len(results) :
                    /\ Count(results[j]) = maxCount
                    /\ \A k \in 1..(j - 1) : Count(results[k]) < maxCount
  IN [strategy |-> "majority", list |-> <<>>, result |-> results[first],
      confidence |-> <<maxCount, Len(results)>>, totalVotes |-> Len(results)]

\* aggregateResults over the successful spawns
AggregateResults(datas, strategy) ==
  LET results == [i \in 1..Len(datas) |-> AggregateEntry(datas[i])]
  IN CASE strategy = "first" -> [NoAggregate EXCEPT !.strategy = "first",
                                                    !.result = results[1]]
       [] strategy = "majority" -> AggregateByMajority(results)
       [] OTHER -> [NoAggregate EXCEPT !.strategy = "all", !.list = results]

\* the successful children's data, in index order
RECURSIVE SuccessfulSpawns(_, _)
SuccessfulSpawns(children, i) ==
  IF i > Len(children) THEN <<>>
  ELSE IF children[i].status = "ok"
  THEN <<ChildData(i, children[i].result)>> \o SuccessfulSpawns(children, i + 1)
  ELSE SuccessfulSpawns(children, i + 1)

\* mutant: one failed spawn fails the step
SpawnOutcome_AllMustSucceed(sp) ==
  LET successfulSpawns == SuccessfulSpawns(sp.children, 1)
  IN IF Len(successfulSpawns) < Len(sp.children) \/ Len(successfulSpawns) = 0
     THEN [NoSpawnResult EXCEPT !.error = "All agent spawns failed"]
     ELSE [success |-> TRUE, error |-> NoError,
           agentCount |-> Len(successfulSpawns),
           requestedCount |-> Len(sp.children),
           aggregatedResult |-> AggregateResults(successfulSpawns, sp.strategy),
           individualResults |-> successfulSpawns]

\* SpawnExecutor.execute after `await Promise.all(spawnPromises)`
SpawnOutcome(sp) ==
  LET successfulSpawns == SuccessfulSpawns(sp.children, 1)
  IN IF Len(successfulSpawns) = 0
     THEN [NoSpawnResult EXCEPT !.error = "All agent spawns failed"]
     ELSE [success |-> TRUE, error |-> NoError,
           agentCount |-> Len(successfulSpawns),
           requestedCount |-> Len(sp.children),
           aggregatedResult |-> AggregateResults(successfulSpawns, sp.strategy),
           individualResults |-> successfulSpawns]

\* the values a numeric context variable and an array-valued one take
CountValues == {Undefined, 0, 2, MaxSpawnAgents + 1}
ArrayLengths == {Undefined, 0, 1, MaxSpawnAgents + 1}

\* a spawn-agent node is dispatched with some configuration and context
SpawnInit ==
  /\ EngineInit
  /\ retry = NoRetry
  /\ \E maxAgents \in 0..MaxSpawnAgents, strategy \in SpawnStrategies,
        agentCount \in CountValues, spawnCount \in {Undefined, 1},
        items \in ArrayLengths, data \in {Undefined, 2} :
        spawn = [NoSpawn EXCEPT !.pc = "start", !.maxAgents = maxAgents,
                                !.strategy = strategy,
                                !.variables = [agentCount |-> agentCount,
                                               spawnCount |-> spawnCount,
                                               items |-> items, data |-> data]]
  /\ graph = NoGraph
  /\ decisions = NoDecisions
  /\ evaln = NoEval
  /\ classified = NoClassified

\* execute up to `await Promise.all(spawnPromises)`: the children are launched
SpawnStart ==
  /\ spawn.pc = "start"
  /\ spawn' =
       IF ~SpawnValidateConfig(spawn)
       THEN [spawn EXCEPT !.pc = "done",
                          !.out = [NoSpawnResult EXCEPT !.error = "Invalid spawn configuration"]]
       ELSE [spawn EXCEPT !.pc = "waiting",
                          !.children =
                             [i \in 1..DetermineAgentCount(spawn.maxAgents, spawn.variables) |->
                                [status |-> "pending", result |-> "none"]]]
  /\ UNCHANGED <<engineVars, retry, graph, decisions, evaln, classified>>

\* spawnSingleAgent of child i returns: its LLM call answered and its record was
\* saved, or one of the two threw
ChildSettles(i, ok, v) ==
  /\ spawn.pc = "waiting"
  /\ i \in 1..Len(spawn.children)
  /\ spawn.children[i].status = "pending"
  /\ spawn' = [spawn EXCEPT !.children[i] =
                  IF ok THEN [status |-> "ok", result |-> v]
                  ELSE [status |-> "failed", result |-> "none"]]
  /\ UNCHANGED <<engineVars, retry, graph, decisions, evaln, classified>>

\* Promise.all resolves once every child has settled; execute returns
SpawnComplete ==
  /\ spawn.pc = "waiting"
  /\ \A i \in 1..Len(spawn.children) : spawn.children[i].status # "pending"
  /\ spawn' = [spawn EXCEPT !.pc = "done", !.out = SpawnOutcome(spawn)]
  /\ UNCHANGED <<engineVars, retry, graph, decisions, evaln, classified>>

SpawnNext ==
  \/ SpawnStart
  \/ \E i \in 1..MaxSpawnAgents, ok \in BOOLEAN, v \in ChildResults : ChildSettles(i, ok, v)
  \/ SpawnComplete

SpawnSpec == SpawnInit /\ [][SpawnNext]_vars

\* the executor's own continuation runs when it can; nothing makes the LLM
\* service answer a child
SpawnFairSpec == SpawnSpec /\ WF_vars(SpawnStart) /\ WF_vars(SpawnComplete)

\* --------------------------------------------- validateWorkflow, called
\* the ids and types of the nodes a submitted workflow is made of
GraphIds == {"t", "a", "b"}

GraphType == [t |-> "trigger", a |-> "action", b |-> "loop"]

\* its edges run between any two ids, whether or not the workflow has the node
GraphEdges == {Edge(x, y, "none") : x \in GraphIds, y \in GraphIds}

\* POST /api/workflows, PUT /api/workflows/[id] and POST /api/execute hand a
\* workflow to validateWorkflow
ValidateInit ==
  /\ EngineInit
  /\ retry = NoRetry
  /\ spawn = NoSpawn
  /\ \E nodes \in SUBSET GraphIds, k \in 0..MaxGraphEdges :
        \E edges \in [1..k -> GraphEdges] :
           graph = [NoGraph EXCEPT !.pc = "input", !.nodes = nodes,
                                   !.type = [n \in nodes |-> GraphType[n]],
                                   !.edges = edges]
  /\ decisions = NoDecisions
  /\ evaln = NoEval
  /\ classified = NoClassified

Validate ==
  /\ graph.pc = "input"
  /\ \E order \in NodeOrders(graph.nodes) :
        graph' = [graph EXCEPT !.pc = "done", !.result = ValidateGraph(graph),
                               !.cycles = DetectCyclesList(graph, order)]
  /\ UNCHANGED <<engineVars, retry, spawn, decisions, evaln, classified>>

ValidateNext == Validate

ValidateSpec == ValidateInit /\ [][ValidateNext]_vars

\* ------------------------------------- approve / reject, by awaited step
\* ApprovalExecutor.approve and .reject are sequences of awaited Redis calls;
\* two requests for the same execution interleave at every await.
DecisionCalls == {1, 2}

DecisionKinds == {"approve", "reject"}

\* the workflows run while the calls are made: two with a gate, one without
DecisionWorkflows == {"gate", "forkgate", "linear"}

IssueDecision(c, kind, e) ==
  /\ decisions.calls[c].pc = "idle"
  /\ decisions.target \in {"none", e}
  /\ decisions' = [target |-> e,
                   calls |-> [decisions.calls EXCEPT
                      ![c] = [@ EXCEPT !.kind = kind, !.pc = "get",
                                !.pending = e \in DOMAIN approvalStore
                                            /\ ~Expired(approvalStore[e])]]]
  /\ UNCHANGED <<engineVars, retry, spawn, graph, evaln, classified>>

\* const approval = await redisClient.getApprovalRequest(executionId)
\* and the two early exits that follow it
DecisionGet(c) ==
  LET e == decisions.target
      call == decisions.calls[c] IN
  /\ call.pc = "get"
  /\ decisions' = [decisions EXCEPT !.calls[c] =
        IF e \notin DOMAIN approvalStore
        THEN [call EXCEPT !.pc = "done", !.error = "Approval request not found"]
        ELSE IF call.kind = "approve" /\ Expired(approvalStore[e])
        THEN [call EXCEPT !.pc = "expire", !.approval = approvalStore[e]]
        ELSE [call EXCEPT !.pc = "read", !.approval = approvalStore[e]]]
  /\ UNCHANGED <<engineVars, retry, spawn, graph, evaln, classified>>

\* await redisClient.deleteApprovalRequest(executionId) on the expired path
DecisionExpire(c) ==
  LET call == decisions.calls[c] IN
  /\ call.pc = "expire"
  /\ approvalStore' = DeleteKey(approvalStore, decisions.target)
  /\ decisions' = [decisions EXCEPT !.calls[c] =
        [call EXCEPT !.pc = "done", !.error = "Approval request has expired"]]
  /\ UNCHANGED <<retry, spawn, graph, evaln, classified, workflowStore, execStore,
                 task, now, startResp, dispatched, returned, lastOp, resumes>>

\* updateExecutionStatus: const execution = await this.getExecution(executionId)
DecisionRead(c) ==
  LET e == decisions.target
      call == decisions.calls[c] IN
  /\ call.pc = "read"
  /\ decisions' = [decisions EXCEPT !.calls[c] =
        IF e \notin DOMAIN execStore
        THEN [call EXCEPT !.pc = "done", !.error = "Execution not found"]
        ELSE [call EXCEPT !.pc = "write", !.execution = execStore[e]]]
  /\ UNCHANGED <<engineVars, retry, spawn, graph, evaln, classified>>

DecisionStatus(kind) == IF kind = "approve" THEN "running" ELSE "failed"

DecisionUpdates(kind, approval) ==
  IF kind = "approve" THEN ApproveUpdates(approval) ELSE RejectUpdates(approval)

\* updateExecutionStatus: await this.saveExecution({...execution, ...updates, status})
\* built from the copy this call read
DecisionWritten(call, e) ==
  UpdateExecutionStatus(Put(execStore, e, call.execution), e,
     DecisionStatus(call.kind), DecisionUpdates(call.kind, call.approval))

DecisionWrite(c) ==
  LET call == decisions.calls[c] IN
  /\ call.pc = "write"
  /\ execStore' = DecisionWritten(call, decisions.target)
  /\ decisions' = [decisions EXCEPT !.calls[c] = [call EXCEPT !.pc = "delete"]]
  /\ UNCHANGED <<retry, spawn, graph, evaln, classified, workflowStore, approvalStore,
                 task, now, startResp, dispatched, returned, lastOp, resumes>>

\* await redisClient.deleteApprovalRequest(executionId); return { success: true }
DecisionDelete(c) ==
  LET call == decisions.calls[c] IN
  /\ call.pc = "delete"
  /\ approvalStore' = DeleteKey(approvalStore, decisions.target)
  /\ decisions' = [decisions EXCEPT !.calls[c] =
        [call EXCEPT !.pc = "done", !.success = TRUE]]
  /\ UNCHANGED <<retry, spawn, graph, evaln, classified, workflowStore, execStore,
                 task, now, startResp, dispatched, returned, lastOp, resumes>>

DecisionInit ==
  /\ EngineInit
  /\ retry = NoRetry
  /\ spawn = NoSpawn
  /\ graph = NoGraph
  /\ decisions = NoDecisions
  /\ evaln = NoEval
  /\ classified = NoClassified

DecisionNext ==
  \/ \E w \in DecisionWorkflows, input \in Inputs, eid \in ExecIds, explicit \in BOOLEAN :
        ExecuteWorkflow(w, input, eid, explicit)
  \/ \E e \in ExecIds : EngPop(e)
  \/ \E e \in ExecIds : EngExec(e)
  \/ \E e \in ExecIds : EngFinish(e)
  \/ Tick
  \/ \E c \in DecisionCalls, kind \in DecisionKinds, e \in ExecIds : IssueDecision(c, kind, e)
  \/ \E c \in DecisionCalls : DecisionGet(c)
  \/ \E c \in DecisionCalls : DecisionExpire(c)
  \/ \E c \in DecisionCalls : DecisionRead(c)
  \/ \E c \in DecisionCalls : DecisionWrite(c)
  \/ \E c \in DecisionCalls : DecisionDelete(c)

DecisionRaceSpec == DecisionInit /\ [][DecisionNext]_vars

\* ---------------------------------------------------- WorkflowErrorHandler
\* an error message is held as the set of the marker substrings it contains;
\* messages are lower-case
Markers ==
  {"timeout", "network", "fetch", "rate limit", "429", "rate_limit", "unauthorized",
   "401", "forbidden", "403", "not found", "404", "validation", "invalid",
   "configuration", "config", "temporary", "unavailable"}

\* the messages raised: those with at most MaxMarkers markers ('configuration'
\* carries 'config' with it)
Messages ==
  {m \in SUBSET Markers : Cardinality(m \ {"config"}) <= MaxMarkers
                          /\ ("configuration" \in m => "config" \in m)}

\* error.message.includes(s)
Includes(message, s) == s \in message

ErrorCodes ==
  {"TIMEOUT_ERROR", "NETWORK_ERROR", "RATE_LIMIT_ERROR", "AUTH_ERROR", "PERMISSION_ERROR",
   "NOT_FOUND_ERROR", "VALIDATION_ERROR", "CONFIG_ERROR", "UNKNOWN_ERROR"}

\* WorkflowErrorHandler.getErrorCode
GetErrorCode(message) ==
  IF Includes(message, "timeout") THEN "TIMEOUT_ERROR"
  ELSE IF Includes(message, "network") \/ Includes(message, "fetch") THEN "NETWORK_ERROR"
  ELSE IF Includes(message, "rate limit") \/ Includes(message, "429") THEN "RATE_LIMIT_ERROR"
  ELSE IF Includes(message, "unauthorized") \/ Includes(message, "401") THEN "AUTH_ERROR"
  ELSE IF Includes(message, "forbidden") \/ Includes(message, "403") THEN "PERMISSION_ERROR"
  ELSE IF Includes(message, "not found") \/ Includes(message, "404") THEN "NOT_FOUND_ERROR"
  ELSE IF Includes(message, "validation") \/ Includes(message, "invalid") THEN "VALIDATION_ERROR"
  ELSE IF Includes(message, "configuration") \/ Includes(message, "config") THEN "CONFIG_ERROR"
  ELSE "UNKNOWN_ERROR"

\* WorkflowErrorHandler.shouldRetryError; retryCount: the visit count of the
\* current node
ShouldRetryError(message, retryCount) ==
  IF GetErrorCode(message) \notin {"TIMEOUT_ERROR", "NETWORK_ERROR", "RATE_LIMIT_ERROR",
                                   "UNKNOWN_ERROR"}
  THEN FALSE
  ELSE retryCount < ErrorHandlerMaxRetries

\* WorkflowErrorHandler.shouldContinueExecution
ShouldContinueExecution(message, retryCount) ==
  IF GetErrorCode(message) \in {"AUTH_ERROR", "PERMISSION_ERROR", "CONFIG_ERROR"}
  THEN FALSE
  ELSE IF retryCount >= ErrorHandlerMaxRetries THEN FALSE
  ELSE TRUE

\* RetryHandler.isRetryableError on a message, under the default retryableErrors
IsRetryableMessage(message) == \E s \in DefaultRetryableErrors : Includes(message, s)

\* executeWithRetry under the default policy, the operation throwing this
\* message at attempt `attempt`: whether another attempt follows
RetriesAfter(message, attempt) ==
  IF ~IsRetryableMessage(message) THEN FALSE
  ELSE IF attempt = DefaultMaxRetries THEN FALSE
  ELSE TRUE

ClassifyInit ==
  /\ EngineInit
  /\ retry = NoRetry
  /\ spawn = NoSpawn
  /\ graph = NoGraph
  /\ decisions = NoDecisions
  /\ evaln = NoEval
  /\ \E message \in Messages, count \in 0..ErrorHandlerMaxRetries :
        classified = [NoClassified EXCEPT !.pc = "raised", !.message = message,
                                          !.retryCount = count]

\* WorkflowErrorHandler.handleError on the raised error
HandleError ==
  /\ classified.pc = "raised"
  /\ ~classified.handled
  /\ classified' = [classified EXCEPT
        !.handled = TRUE,
        !.code = GetErrorCode(classified.message),
        !.shouldRetry = ShouldRetryError(classified.message, classified.retryCount),
        !.shouldContinue = ShouldContinueExecution(classified.message,
                                                   classified.retryCount)]
  /\ UNCHANGED <<engineVars, retry, spawn, graph, decisions, evaln>>

\* executeWithRetry's catch block on the same error, thrown by its attempt
\* number retryCount + 1
RetryDecision ==
  /\ classified.pc = "raised"
  /\ ~classified.attempted
  /\ classified.retryCount < DefaultMaxRetries
  /\ classified' = [classified EXCEPT
        !.attempted = TRUE,
        !.retried = RetriesAfter(classified.message, classified.retryCount + 1)]
  /\ UNCHANGED <<engineVars, retry, spawn, graph, decisions, evaln>>

ClassifyNext == HandleError \/ RetryDecision

ClassifySpec == ClassifyInit /\ [][ClassifyNext]_vars

\* ------------------------------------ condition and exit-condition evaluation
\* the constructs containsUnsafeCode looks for (both executors hold the same list)
UnsafePatterns ==
  {"require(", "import ", "eval(", "Function(", "setTimeout(", "setInterval(",
   "process.", "global.", "window.", "document.", "console.", "__proto__",
   "constructor", "prototype"}

\* an expression text, by what matters to the executors: the unsafe construct
\* it contains ("none": none), whether it parses, whether running it throws in
\* validateConfig's trial and in safeEval, and the value it yields
Expressions ==
  [pattern : UnsafePatterns \cup {"none"}, parses : BOOLEAN, trialThrows : BOOLEAN,
   evalThrows : BOOLEAN, value : BOOLEAN]

EvaluatorKinds == {"condition", "loop-exit"}

NoOutcome == [success |-> FALSE, result |-> FALSE, error |-> NoError]

\* containsUnsafeCode(expression)
ContainsUnsafeCode(expr) == expr.pattern \in UnsafePatterns

\* validateConfig: new Function(..., `return ${testExpression}`)(...) inside try;
\* the text is compiled and, when it parses, run
TrialEvaluation(ev) ==
  IF ~ev.expr.parses
  THEN [ev EXCEPT !.pc = "done",
                  !.out = [NoOutcome EXCEPT !.error = "Invalid expression syntax"]]
  ELSE IF ev.expr.trialThrows
  THEN [ev EXCEPT !.pc = "done", !.log = Append(@, "run"),
                  !.out = [NoOutcome EXCEPT !.error = "Invalid expression syntax"]]
  ELSE [ev EXCEPT !.pc = "check", !.log = Append(@, "run")]

\* safeEval: the unsafe-code check; its throw is caught by evaluateCondition /
\* evaluateExitCondition, which return false
UnsafeCheck(ev) ==
  IF ContainsUnsafeCode(ev.expr)
  THEN [ev EXCEPT !.pc = "done", !.log = Append(@, "check_failed"),
                  !.out = [success |-> TRUE, result |-> FALSE, error |-> NoError]]
  ELSE [ev EXCEPT !.pc = "eval", !.log = Append(@, "check_passed")]

\* safeEval: new Function(...contextKeys, `return ${expression}`)(...contextValues)
Evaluation(ev) ==
  [ev EXCEPT !.pc = "done", !.log = Append(@, "run"),
             !.out = [success |-> TRUE,
                      result |-> IF ev.expr.evalThrows THEN FALSE ELSE ev.expr.value,
                      error |-> NoError]]

\* ConditionExecutor.execute / LoopExecutor.execute called on a node whose
\* expression is any of the texts
ConditionInit ==
  /\ EngineInit
  /\ retry = NoRetry
  /\ spawn = NoSpawn
  /\ graph = NoGraph
  /\ decisions = NoDecisions
  /\ classified = NoClassified
  /\ \E kind \in EvaluatorKinds, expr \in Expressions :
        evaln = [NoEval EXCEPT !.pc = "validate", !.kind = kind, !.expr = expr]

ValidateConfigStep ==
  /\ evaln.pc = "validate"
  /\ evaln' = TrialEvaluation(evaln)
  /\ UNCHANGED <<engineVars, retry, spawn, graph, decisions, classified>>

UnsafeCheckStep ==
  /\ evaln.pc = "check"
  /\ evaln' = UnsafeCheck(evaln)
  /\ UNCHANGED <<engineVars, retry, spawn, graph, decisions, classified>>

EvaluationStep ==
  /\ evaln.pc = "eval"
  /\ evaln' = Evaluation(evaln)
  /\ UNCHANGED <<engineVars, retry, spawn, graph, decisions, classified>>

ConditionNext == ValidateConfigStep \/ UnsafeCheckStep \/ EvaluationStep

ConditionSpec == ConditionInit /\ [][ConditionNext]_vars

\* ------------------------------------------------------------------ claims
\* the execution of this behaviour, once started
Started(e) == e \in DOMAIN execStore

Persisted(e) == execStore[e]

WfOf(e) == execStore[e].workflowId


\* the engine is traversing e: a node is in flight or nodes are still queued
Traversing(e) == task[e].pc = "exec" \/ (task[e].pc = "loop" /\ task[e].stack # <<>>)

\* C1: once cancel has set CANCELLED while the engine is traversing the execution,
\* the persisted status stays CANCELLED, stepResults gains no entry, and no node
\* other than the one in flight is dispatched.
C1_CancelStopsDispatch ==
  [][\A e \in ExecIds :
       (Started(e) /\ Persisted(e).status = "cancelled" /\ Traversing(e)) =>
          /\ execStore'[e].status = "cancelled"
          /\ DOMAIN execStore'[e].stepResults \subseteq DOMAIN execStore[e].stepResults
          /\ (task[e].pc = "loop" => task'[e].pc # "exec" /\ dispatched'[e] = dispatched[e])]_vars

\* C1 case: the record says CANCELLED while the engine still has nodes to run
C1_Witness ==
  \E e \in ExecIds : Started(e) /\ Persisted(e).status = "cancelled" /\ Traversing(e)


Occurrences(seq, x) == Cardinality({i \in 1..Len(seq) : seq[i] = x})

Gates(w) == {n \in NodeSet(w) : TypeOf(w, n) = "human-approval"}

\* C2: resume re-enters at the paused gate only to route past it: the gate is not
\* dispatched a second time (a dispatch is what creates its ApprovalRequest) and
\* the resumed traversal does not end PAUSED at that gate again.
C2_ResumeRoutesPastGate ==
  \A e \in DOMAIN execStore : \A g \in Gates(WfOf(e)) :
     /\ Occurrences(dispatched[e], g) <= 1
     /\ (resumes > 0 /\ task[e].pc = "done")
           => ~(task[e].resStatus = "paused" /\ task[e].cur = g)

\* C2 case: a resume has re-entered traversal at the gate and that traversal has ended
C2_Witness ==
  \E e \in DOMAIN execStore :
     resumes > 0 /\ task[e].pc = "done" /\ Gates(WfOf(e)) # {}


Terminal == {"completed", "failed", "cancelled"}

AllowedTransitions ==
  {<<"running", "paused">>, <<"running", "completed">>, <<"running", "failed">>,
   <<"running", "cancelled">>, <<"paused", "running">>, <<"paused", "failed">>,
   <<"paused", "cancelled">>}

\* C3: the persisted status moves only along RUNNING->{PAUSED, COMPLETED, FAILED,
\* CANCELLED} and PAUSED->{RUNNING, FAILED, CANCELLED}, and a record whose status
\* is terminal is never written again.
C3_StatusTransitions ==
  [][\A e \in DOMAIN execStore :
       /\ (execStore'[e].status # execStore[e].status
             => <<execStore[e].status, execStore'[e].status>> \in AllowedTransitions)
       /\ (execStore[e].status \in Terminal => execStore'[e] = execStore[e])]_vars

\* C3 case: a terminal record exists and a call or engine step can still follow
C3_Witness ==
  \E e \in DOMAIN execStore : Persisted(e).status \in Terminal /\ task[e].pc = "done"

\* C4: a node id that has an entry in the persisted stepResults keeps an entry in
\* every later persisted version of the execution.
C4_StepResultsNeverRemoved ==
  [][\A e \in DOMAIN execStore :
       DOMAIN execStore[e].stepResults \subseteq DOMAIN execStore'[e].stepResults]_vars

\* C4 case: a record with step results of earlier nodes is paused at a gate
C4_Witness ==
  \E e \in DOMAIN execStore :
     /\ Persisted(e).status = "paused"
     /\ e \in DOMAIN approvalStore
     /\ DOMAIN Persisted(e).stepResults \ {approvalStore[e].nodeId} # {}

\* the step in which the run of e returns with status 'failed'
RunFails(e) == task[e].pc # "done" /\ task'[e].pc = "done" /\ task'[e].resStatus = "failed"

\* C5: when a run ends in failure the persisted record has status FAILED and a
\* populated error.
C5_FailurePersisted ==
  [][\A e \in ExecIds :
       RunFails(e) => /\ e \in DOMAIN execStore'
                      /\ execStore'[e].status = "failed"
                      /\ execStore'[e].error # NoError]_vars

\* C5 case: a run has returned 'failed' with an error message
C5_Witness ==
  \E e \in ExecIds :
     task[e].pc = "done" /\ task[e].resStatus = "failed" /\ task[e].resError # NoError


\* the step in which the engine dispatches approval node g of execution e
GateDispatch(e, g) ==
  /\ task[e].pc = "exec"
  /\ task[e].cur = g
  /\ TypeOf(task[e].ctx.workflowId, g) = "human-approval"
  /\ dispatched'[e] = Append(dispatched[e], g)

\* an approve() / reject() call that finds a request stored for e
ApproveCall(e) ==
  /\ e \in DOMAIN approvalStore
  /\ lastOp'.op = "approve"
  /\ task' = task /\ now' = now /\ dispatched' = dispatched
  /\ workflowStore' = workflowStore

RejectCall(e) ==
  /\ e \in DOMAIN approvalStore
  /\ lastOp'.op = "reject"
  /\ task' = task /\ now' = now /\ dispatched' = dispatched
  /\ workflowStore' = workflowStore

GateEffect(e, g) ==
  /\ execStore'[e].status = "paused"
  /\ execStore'[e].currentNodeId = g
  /\ e \in DOMAIN approvalStore'
  /\ approvalStore'[e].nodeId = g
  /\ ~Active(e)'
  /\ dispatched'[e] = Append(dispatched[e], g)

ApproveEffect(e) ==
  /\ execStore'[e].status = "running"
  /\ e \notin DOMAIN approvalStore'

RejectEffect(e) ==
  /\ execStore'[e].status = "failed"
  /\ execStore'[e].error = "Approval rejected"
  /\ e \notin DOMAIN approvalStore'

PausedAtGate(e, g) ==
  Started(e) /\ Persisted(e).status = "paused" /\ Persisted(e).currentNodeId = g

\* C7: an ApprovalRequest is stored for an execution if and only if the execution's
\* persisted status is PAUSED at the request's gate.
C7_RequestIffPaused ==
  \A e \in ExecIds :
     /\ (e \in DOMAIN approvalStore => PausedAtGate(e, approvalStore[e].nodeId))
     /\ (Started(e) /\ Persisted(e).status = "paused" => e \in DOMAIN approvalStore)

\* C7 case: an execution is paused at a gate with its request stored
C7_Witness ==
  \E e \in DOMAIN approvalStore : PausedAtGate(e, approvalStore[e].nodeId)

ApproveSucceeded == lastOp.op = "approve" /\ lastOp.ok

Settled ==
  \E e \in DOMAIN execStore :
     /\ Persisted(e).status \in {"completed", "failed", "paused"}
     /\ \E g \in Gates(WfOf(e)) : \E i \in 1..Len(dispatched[e]) :
           /\ dispatched[e][i] = g
           /\ \E j \in (i + 1)..Len(dispatched[e]) :
                 dispatched[e][j] \in SeqToSet(GetNextNodes(WfOf(e), g))

\* C8: after approve() succeeds, the nodes downstream of the gate are eventually
\* dispatched and the execution eventually reaches COMPLETED, FAILED or PAUSED at
\* a later gate, with no further external call.
C8_ApproveContinues == ApproveSucceeded ~> Settled

\* C8 case: approve() has just succeeded on an execution that was paused at a gate
C8_Witness ==
  /\ ApproveSucceeded
  /\ \E e \in DOMAIN execStore : Persisted(e).status = "running" /\ ~Active(e)

\* C9: the executionId in the response of the start operation is the id under
\* which the run it started is persisted.
C9_ReturnedIdIsPersistedId ==
  \A r \in startResp :
     /\ r.executionId \in DOMAIN execStore
     /\ r.executionId = r.run

\* C9 case: the start route has answered and the run it started is persisted
C9_Witness == \E r \in startResp : r.run \in DOMAIN execStore


\* the graph is the chain nodes[1] -> nodes[2] -> ... -> nodes[k], nodes[1] its start
IsChain(w) ==
  LET ns == Workflows[w].nodes
      es == Workflows[w].edges
  IN /\ Len(ns) >= 1
     /\ Len(es) = Len(ns) - 1
     /\ TypeOf(w, ns[1]) = "trigger"
     /\ \A i \in 1..Len(es) : es[i].source = ns[i] /\ es[i].target = ns[i + 1]

IsPrefix(s, t) == Len(s) <= Len(t) /\ \A i \in 1..Len(s) : s[i] = t[i]

HasType(w, types) == \E n \in NodeSet(w) : TypeOf(w, n) \in types

\* the run of e has returned and none of its dispatches failed
RanClean(e) == task[e].pc = "done" /\ task[e].resStatus # "failed"

ChainRun(e) ==
  LET w == WfOf(e)
      ns == Workflows[w].nodes
  IN /\ IsPrefix(dispatched[e], ns)
     /\ (Active(e) => task[e].ctx.status = "running")
     /\ (task[e].ctx.status = "completed" => task[e].stack = <<>>)
     /\ RanClean(e) =>
          /\ dispatched[e] = ns
          /\ task[e].resStatus = "completed"
          /\ task[e].stack = <<>>
          /\ \A n \in NodeSet(w) :
                /\ n \in DOMAIN Persisted(e).stepResults
                /\ Persisted(e).stepResults[n] = returned[e][n]
                /\ task[e].ctx.stepResults[n] = returned[e][n]

\* C10 as stated: on a linear chain with no approval node whose dispatches all
\* succeed, each node is dispatched exactly once in chain order, each node's
\* stepResults entry holds the data it returned, and the run finishes COMPLETED,
\* which happens only with the work stack empty.
C10_Original ==
  \A e \in DOMAIN execStore :
     (IsChain(WfOf(e)) /\ ~HasType(WfOf(e), {"human-approval"})) => ChainRun(e)

\* C10 amended: the same for a chain with no approval, loop or condition node.
C10_LinearChain ==
  \A e \in DOMAIN execStore :
     (IsChain(WfOf(e)) /\ ~HasType(WfOf(e), {"human-approval", "loop", "condition"}))
        => ChainRun(e)

\* C10 case: a chain of plain nodes has run to the end with every dispatch successful
C10_Witness ==
  \E e \in DOMAIN execStore :
     /\ IsChain(WfOf(e))
     /\ ~HasType(WfOf(e), {"human-approval", "loop", "condition"})
     /\ RanClean(e)
     /\ Len(dispatched[e]) = Len(Workflows[WfOf(e)].nodes)

\* ---- C11
\* the errors an executor (or the factory) reports for a failed dispatch
ExecutorErrors ==
  {"node_failed", "timeout", "Invalid approval configuration", "Execution not found",
   "Invalid loop configuration", "Invalid condition configuration"}

\* this step dispatches the node in flight and the dispatch does not succeed
DispatchFails(e) ==
  /\ task[e].pc = "exec"
  /\ dispatched'[e] # dispatched[e]
  /\ Lookup(task'[e].ctx.nodeStatuses, task[e].cur, "none") # "completed"

\* the run of e has returned after a failed dispatch
FailedRun(e) == task[e].pc = "done" /\ task[e].resError \in ExecutorErrors

\* C11: when the dispatch of a node fails, the run returns success=false with
\* status FAILED and the node's error message, the node's status is 'failed',
\* and the run dispatches no further node.
C11_FailureStopsRun ==
  [][\A e \in ExecIds :
       /\ DispatchFails(e) =>
            /\ task'[e].pc = "done"
            /\ task'[e].resSuccess = FALSE
            /\ task'[e].resStatus = "failed"
            /\ task'[e].resError \in ExecutorErrors
            /\ task'[e].ctx.error = task'[e].resError
            /\ task'[e].ctx.nodeStatuses[task[e].cur] = "failed"
       /\ FailedRun(e) => dispatched'[e] = dispatched[e]]_vars

\* C11 case: a run stopped at a failed node while nodes downstream of it exist
C11_Witness ==
  \E e \in DOMAIN execStore :
     /\ FailedRun(e)
     /\ task[e].resSuccess = FALSE
     /\ GetNextNodes(WfOf(e), task[e].cur) # <<>>
     /\ Len(dispatched[e]) >= 2

\* ---- C12
\* the run of e has failed on a transient error of the node it dispatched last
TransientFailure(e) ==
  /\ FailedRun(e)
  /\ IsRetryableError(TypeOf(task[e].ctx.workflowId, task[e].cur), task[e].resError)

\* C12: a dispatch failing with a transient error is retried under the retry
\* policy of its node kind: a run is FAILED on such an error only once the node
\* has been attempted as often as the policy allows.
C12_TransientRetried ==
  \A e \in ExecIds :
     TransientFailure(e) =>
        Occurrences(dispatched[e], task[e].cur)
           >= MaxRetries(TypeOf(task[e].ctx.workflowId, task[e].cur))

\* C12 case: a run has failed on a timeout of an action or agent node
C12_Witness ==
  \E e \in ExecIds :
     /\ TransientFailure(e)
     /\ task[e].resStatus = "failed"
     /\ MaxRetries(TypeOf(task[e].ctx.workflowId, task[e].cur)) > 1

\* ---- C13
\* this step is a resume call on e that was answered
ResumeCall(e) == lastOp' # lastOp /\ lastOp'.op = "resume" /\ lastOp'.id = e

\* the call changed neither store, started no run and dispatched nothing
NothingTouched ==
  /\ execStore' = execStore
  /\ approvalStore' = approvalStore
  /\ task' = task
  /\ dispatched' = dispatched

\* C13: resume on an id with no persisted state fails with a not-found error,
\* resume on an execution that is not PAUSED fails with an invalid-state error,
\* and in both cases the persisted state is unchanged and no node is dispatched.
C13_ResumeRefused ==
  [][\A e \in ExecIds :
       ResumeCall(e) =>
          /\ e \notin DOMAIN execStore =>
                lastOp' = OpResult("resume", e, FALSE, "not_found") /\ NothingTouched
          /\ (e \in DOMAIN execStore /\ execStore[e].status # "paused") =>
                lastOp' = OpResult("resume", e, FALSE, "not_paused") /\ NothingTouched]_vars

\* C13 case: resume was refused on an execution that exists and is still being run
C13_Witness ==
  \E e \in DOMAIN execStore :
     /\ lastOp = OpResult("resume", e, FALSE, "not_paused")
     /\ Active(e)

\* ---- C14
\* what a resume call on e, answered in this step, did to the record that was PAUSED
ResumeEffect(e) ==
  /\ execStore'[e].variables = Spread(execStore[e].variables, lastOp'.arg)
  /\ execStore'[e].status = "running"
  /\ execStore'[e].stepResults = execStore[e].stepResults
  /\ execStore'[e].nodeVisitCounts = execStore[e].nodeVisitCounts

LoopNodes(w) == {n \in NodeSet(w) : TypeOf(w, n) = "loop"}

RECURSIVE Closure(_, _, _)
\* the nodes reachable from the set S in at most k further edges
Closure(w, S, k) ==
  IF k = 0 THEN S
  ELSE Closure(w, S \cup UNION {SeqToSet(GetNextNodes(w, n)) : n \in S}, k - 1)

\* traversal reaches n once: one edge leads into it and it lies on no cycle
ReachedOnce(w, n) ==
  /\ Len(SelectSeq(Workflows[w].edges, LAMBDA ed : ed.target = n)) = 1
  /\ n \notin Closure(w, SeqToSet(GetNextNodes(w, n)), Len(Workflows[w].nodes))

\* the dispatches of n are next to each other
Consecutive(seq, n) ==
  \A i, j \in 1..Len(seq) :
     (seq[i] = n /\ seq[j] = n) => \A k \in i..j : seq[k] = n

\* traversal has left n: another node was popped after it, or the run completed
MovedOn(e, n) ==
  /\ Occurrences(dispatched[e], n) > 0
  /\ \/ task[e].cur # n
     \/ task[e].pc = "done"

\* the loop node n of e is dispatched m times in a row before traversal moves on
DispatchedMTimes(e, n) ==
  LET m == Workflows[WfOf(e)].loopMax[n]
  IN /\ Occurrences(dispatched[e], n) <= m
     /\ Consecutive(dispatched[e], n)
     /\ MovedOn(e, n) => Occurrences(dispatched[e], n) = m

PopsNode(e) ==
  /\ task[e].pc = "loop"
  /\ task[e].stack # <<>>
  /\ task[e].ctx.status = "running"
  /\ task'[e] # task[e]

\* the visit counter of the node about to be popped, after its increment
CounterAfterPop(e) == Lookup(task[e].ctx.nodeVisitCounts, Head(task[e].stack), 0) + 1

\* C16: when a node is popped and its visit counter, after the increment, exceeds
\* the node's own configured max-iterations, the run fails with an
\* iteration-limit error (a loop node configured with maxIterations = m fails
\* the run on visit m + 1).
C16_NodeLimitFailsRun ==
  [][\A e \in ExecIds :
       (PopsNode(e)
          /\ Head(task[e].stack) \in LoopNodes(task[e].ctx.workflowId)
          /\ CounterAfterPop(e) >
                Workflows[task[e].ctx.workflowId].loopMax[Head(task[e].stack)])
       => /\ task'[e].pc = "done"
          /\ task'[e].resStatus = "failed"
          /\ task'[e].resError = "Maximum iterations exceeded"]_vars

\* C16 case: a loop node is in flight on a visit beyond its configured maxIterations
C16_Witness ==
  \E e \in DOMAIN execStore :
     /\ task[e].pc = "exec"
     /\ task[e].cur \in LoopNodes(WfOf(e))
     /\ task[e].ctx.nodeVisitCounts[task[e].cur] > Workflows[WfOf(e)].loopMax[task[e].cur]

\* ---- C17
\* in this step the loop node in flight reports shouldContinue = false
LoopExits(e) ==
  /\ task[e].pc = "exec"
  /\ task[e].cur \in LoopNodes(task[e].ctx.workflowId)
  /\ task'[e].pc = "loop"
  /\ task'[e].ctx.stepResults[task[e].cur] = "loop_exit"

\* the nodes this step put on the front of the work stack of e
Enqueued(e) == SubSeq(task'[e].stack, 1, Len(task'[e].stack) - Len(task[e].stack))

\* the targets of the edges by which n is left for good: its loop-exit edges, and
\* (read in the claim's favour) its unguarded edges
ExitTargets(w, n) ==
  SeqToSet(TargetsOf(w, SelectSeq(OutgoingEdges(w, n),
                                  LAMBDA ed : IsExitEdge(ed) \/ ed.condition = "")))

\* C17: when a loop node reports shouldContinue = false, the engine enqueues only
\* the targets of that node's loop-exit edges, not those of its other edges
\* (its continue/body edge).
C17_OnlyExitEdges ==
  [][\A e \in ExecIds :
       LoopExits(e) =>
          SeqToSet(Enqueued(e)) \subseteq ExitTargets(task[e].ctx.workflowId, task[e].cur)]_vars

\* C17 case: a loop node with a continue edge and an exit edge has left the loop
C17_Witness ==
  \E e \in DOMAIN execStore : \E n \in LoopNodes(WfOf(e)) :
     /\ task[e].pc = "loop" /\ task[e].cur = n
     /\ Lookup(task[e].ctx.stepResults, n, "none") = "loop_exit"
     /\ LoopGetNextNodes(WfOf(e), n, FALSE) # <<>>
     /\ LoopGetNextNodes(WfOf(e), n, TRUE) # <<>>

\* ---- C18
\* in this step the condition node in flight of e has been evaluated
ConditionEvaluated(e) ==
  /\ task[e].pc = "exec"
  /\ TypeOf(task[e].ctx.workflowId, task[e].cur) = "condition"
  /\ dispatched'[e] # dispatched[e]
  /\ ~DispatchFails(e)

\* the edge guard selects the branch taken on result r
GuardMatches(guard, r) ==
  IF r THEN guard \in {"", "true", "True"} ELSE guard \in {"false", "False"}

\* positions, in the edge array of w, of the edges leaving n whose guard matches r
MatchingEdges(w, n, r) ==
  {i \in 1..Len(Workflows[w].edges) :
     /\ Workflows[w].edges[i].source = n
     /\ GuardMatches(Workflows[w].edges[i].condition, r)}

\* C18: after a condition node evaluates to r the engine enqueues exactly the
\* targets of its outgoing edges that are unguarded or guarded "true" when r is
\* true, and exactly those guarded "false" when r is false; no edge is followed
\* on both outcomes, and when no edge matches the path ends without failing.
C18_ConditionRouting ==
  [][\A e \in ExecIds :
       ConditionEvaluated(e) =>
          LET w == task[e].ctx.workflowId
              n == task[e].cur
              r == task'[e].ctx.stepResults[n] = "cond_true"
          IN /\ task'[e].ctx.stepResults[n] \in {"cond_true", "cond_false"}
             /\ Len(Enqueued(e)) = Cardinality(MatchingEdges(w, n, r))
             /\ SeqToSet(Enqueued(e)) =
                   {Workflows[w].edges[i].target : i \in MatchingEdges(w, n, r)}
             /\ MatchingEdges(w, n, TRUE) \cap MatchingEdges(w, n, FALSE) = {}
             /\ task'[e].pc = "loop" /\ task'[e].ctx.status = "running"]_vars

\* C18 case: a condition evaluated to false with no false-guarded edge, and the
\* run completed with the unguarded successor never dispatched
C18_Witness ==
  \E e \in DOMAIN execStore :
     /\ task[e].pc = "done" /\ task[e].resStatus = "completed"
     /\ TypeOf(WfOf(e), task[e].cur) = "condition"
     /\ task[e].ctx.stepResults[task[e].cur] = "cond_false"
     /\ MatchingEdges(WfOf(e), task[e].cur, TRUE) # {}
     /\ MatchingEdges(WfOf(e), task[e].cur, FALSE) = {}

\* ---- C20
\* the expression of condition node n of w cannot be evaluated
CannotEvaluate(w, n) ==
  TypeOf(w, n) = "condition" /\ Lookup(Workflows[w].expr, n, "ok") # "ok"

\* C20: a condition node whose expression cannot be evaluated yields
\* result = false and traversal continues along the false branch; the condition
\* step and the execution never fail on it.
C20_EvalErrorIsFalse ==
  [][\A e \in ExecIds :
       (task[e].pc = "exec" /\ dispatched'[e] # dispatched[e]
          /\ CannotEvaluate(task[e].ctx.workflowId, task[e].cur))
       => /\ task'[e].pc = "loop"
          /\ task'[e].ctx.status = "running"
          /\ Lookup(task'[e].ctx.stepResults, task[e].cur, "none") = "cond_false"
          /\ Enqueued(e) = GetConditionalNextNodes(task[e].ctx.workflowId, task[e].cur, FALSE)]_vars

\* C20 case: a condition whose expression cannot be evaluated has been dispatched
C20_Witness ==
  \E e \in DOMAIN execStore :
     /\ Len(dispatched[e]) >= 2
     /\ CannotEvaluate(WfOf(e), dispatched[e][Len(dispatched[e])])
     /\ task[e].cur = dispatched[e][Len(dispatched[e])]

\* ---- C19
\* in this step a node of e that is no condition, loop or approval node succeeded
PlainNodeSucceeds(e) ==
  /\ task[e].pc = "exec"
  /\ TypeOf(task[e].ctx.workflowId, task[e].cur) \notin {"condition", "loop", "human-approval"}
  /\ dispatched'[e] # dispatched[e]
  /\ ~DispatchFails(e)

\* the guard expression holds in the execution context: the literal guards of the
\* workflows above do not depend on the context
GuardSatisfied(guard) == guard \in {"true", "True"}

\* positions of the edges leaving n that the default rule follows
FollowedEdges(w, n) ==
  {i \in 1..Len(Workflows[w].edges) :
     /\ Workflows[w].edges[i].source = n
     /\ (Workflows[w].edges[i].condition = ""
           \/ GuardSatisfied(Workflows[w].edges[i].condition))}

\* C19: after a node that is not a condition, loop or approval node succeeds, a
\* guarded outgoing edge is followed only if its guard is satisfied, while
\* unguarded outgoing edges are always followed.
C19_GuardedEdges ==
  [][\A e \in ExecIds :
       PlainNodeSucceeds(e) =>
          SeqToSet(Enqueued(e)) =
             {Workflows[task[e].ctx.workflowId].edges[i].target :
                i \in FollowedEdges(task[e].ctx.workflowId, task[e].cur)}]_vars

\* C19 case: a plain node whose only outgoing edge has an unsatisfied guard succeeded
C19_Witness ==
  \E e \in DOMAIN execStore :
     /\ task[e].pc = "loop"
     /\ task[e].cur \in NodeSet(WfOf(e))
     /\ TypeOf(WfOf(e), task[e].cur) = "action"
     /\ Lookup(task[e].ctx.nodeStatuses, task[e].cur, "none") = "completed"
     /\ OutgoingEdges(WfOf(e), task[e].cur) # <<>>
     /\ FollowedEdges(WfOf(e), task[e].cur) = {}

\* ---- C21
\* the attempts made so far all failed with a retryable error
AllRetried(o, n) == \A i \in 1..n : o[i] # "ok" /\ HandlerRetries(retry, o[i])

\* C21: executeWithRetry invokes the operation one attempt at a time and stops
\* at the first attempt that succeeds, at the first attempt that fails with a
\* non-retryable error, or after maxRetries retryable failures; the returned
\* attempts is the number of invocations and never exceeds maxRetries, and
\* success is true only when the last invocation succeeded.
C21_RetryStops ==
  retry.pc # "none" =>
    LET o == retry.outcomes
        n == Len(o)
    IN /\ retry.calls = n
       /\ n <= retry.maxRetries
       /\ AllRetried(o, n - 1)
       /\ retry.pc = "done" =>
            /\ n >= 1
            /\ o[n] = "ok" \/ ~HandlerRetries(retry, o[n]) \/ n = retry.maxRetries
            /\ retry.result.attempts = n
            /\ retry.result.success <=> o[n] = "ok"
       /\ retry.pc # "done" => AllRetried(o, n) /\ n < retry.maxRetries

\* two timeouts, then a success, under maxRetries = 3
C21_Witness ==
  /\ retry.pc = "done"
  /\ retry.maxRetries = 3
  /\ retry.outcomes = <<"timeout", "timeout", "ok">>
  /\ retry.result.success
  /\ retry.result.attempts = 3

\* ---- C22
\* the spawn node's configuration passed validateConfig and its children were launched
Launched == spawn.pc \in {"waiting", "done"} /\ SpawnValidateConfig(spawn)

\* the positive numeric counts, and the array lengths, the context holds
PositiveCounts ==
  {c \in {spawn.variables.agentCount, spawn.variables.spawnCount} : c # Undefined /\ c > 0}

ArraysHeld == {spawn.variables.items, spawn.variables.data} \ {Undefined}

SucceededChildren == {i \in 1..Len(spawn.children) : spawn.children[i].status = "ok"}

\* the children whose data the step's result carries
ReportedChildren ==
  {spawn.out.individualResults[k].agentIndex + 1 : k \in 1..Len(spawn.out.individualResults)}

\* the number of results the aggregate was built from
AggregatedCount ==
  CASE spawn.strategy = "majority" -> spawn.out.aggregatedResult.totalVotes
    [] spawn.strategy = "all" -> Len(spawn.out.aggregatedResult.list)
    [] OTHER -> 1

\* C23: a spawn step succeeds when at least one launched child succeeds and
\* fails only when every launched child fails; its result carries the
\* successful children only.
C23_PartialSuccess ==
  (Launched /\ spawn.pc = "done") =>
    /\ spawn.out.success <=> SucceededChildren # {}
    /\ spawn.out.success =>
         /\ ReportedChildren = SucceededChildren
         /\ Len(spawn.out.individualResults) = Cardinality(SucceededChildren)
         /\ spawn.out.agentCount = Cardinality(SucceededChildren)
         /\ spawn.strategy \in {"majority", "all"} =>
              AggregatedCount = Cardinality(SucceededChildren)
         /\ spawn.strategy = "first" =>
              \E i \in SucceededChildren :
                 spawn.out.aggregatedResult.result.result = spawn.children[i].result

\* three children, one failed: the step succeeds with the other two
C23_Witness ==
  /\ Launched /\ spawn.pc = "done"
  /\ Len(spawn.children) = 3
  /\ Cardinality(SucceededChildren) = 2
  /\ spawn.out.success
  /\ spawn.out.agentCount = 2

\* ---- C24
\* the step is waiting for its children
SpawnWaiting == spawn.pc = "waiting"

\* C24: the spawn step waits for its children for a bounded time only: once
\* they are launched the step completes, whether or not every child finishes.
C24_BoundedWait == SpawnWaiting ~> (spawn.pc = "done")

\* one child has finished and another has not
C24_Witness ==
  /\ SpawnWaiting
  /\ \E i, j \in 1..Len(spawn.children) :
        spawn.children[i].status = "ok" /\ spawn.children[j].status = "pending"

\* ---- C25
\* the successful children that returned v
Votes(v) == Cardinality({i \in SucceededChildren : spawn.children[i].result = v})

\* C25: with strategy majority the aggregate's result is a child result returned
\* by the largest number of successful children, confidence is that number over
\* totalVotes, and totalVotes is the number of successful children, falsy
\* results included.
C25_Majority ==
  (Launched /\ spawn.pc = "done" /\ spawn.out.success /\ spawn.strategy = "majority") =>
    LET agg == spawn.out.aggregatedResult
    IN /\ agg.totalVotes = Cardinality(SucceededChildren)
       /\ \E i \in SucceededChildren :
             /\ ~agg.result.wrapper
             /\ agg.result.result = spawn.children[i].result
             /\ \A v \in ChildResults : Votes(v) <= Votes(spawn.children[i].result)
             /\ agg.confidence = <<Votes(spawn.children[i].result), agg.totalVotes>>

\* three children, two of them returning JSON false, aggregated by majority
C25_Witness ==
  /\ Launched /\ spawn.pc = "done" /\ spawn.out.success /\ spawn.strategy = "majority"
  /\ Cardinality(SucceededChildren) = 3
  /\ Votes("false") = 2

\* ---- C26
\* the engine hands a node of execution e to executeNode in this step
Dispatches(e) == task[e].pc = "loop" /\ task'[e].pc = "exec"

Validated == graph.pc = "done"

StartNodes == {n \in graph.nodes : graph.type[n] = "trigger"}

EdgeTargets == {graph.edges[i].target : i \in 1..Len(graph.edges)}

EdgeSources == {graph.edges[i].source : i \in 1..Len(graph.edges)}

\* some node of the workflow lies on a cycle
OnCycle ==
  \E n \in graph.nodes :
     \E i \in 1..Len(graph.edges) :
        /\ graph.edges[i].source = n
        /\ n \in GraphReach(graph, {graph.edges[i].target}, Len(graph.edges))

C28_MissingStart ==
  (Validated /\ StartNodes = {}) =>
     /\ ~graph.result.isValid
     /\ MissingTrigger \in graph.result.errors

\* two connected nodes, none of them a trigger
C28_Witness ==
  /\ Validated /\ StartNodes = {}
  /\ graph.nodes = {"a", "b"}
  /\ graph.nodes \subseteq EdgeTargets
  /\ graph.result.errors = {MissingTrigger}

\* ---- C29
\* the non-start nodes no edge leads to
Unreachable == (graph.nodes \ StartNodes) \ EdgeTargets

\* C29: validate returns valid = false whenever some non-start node is not the
\* target of any edge, whether it is attached to no edge or has outgoing edges
\* only, with an error naming that node.
C29_UnreachableNode ==
  Validated =>
     \A n \in Unreachable :
        /\ ~graph.result.isValid
        /\ NotConnected(n) \in graph.result.errors

\* a validated graph with a non-start node that has outgoing edges only
C29_Witness ==
  /\ Validated
  /\ StartNodes # {}
  /\ \E n \in Unreachable : n \in EdgeSources
  /\ graph.result.isValid

\* ---- C30
\* the edges whose source or target is not a node of the graph
Dangling ==
  {i \in 1..Len(graph.edges) :
      graph.edges[i].source \notin graph.nodes \/ graph.edges[i].target \notin graph.nodes}

\* C30: a graph with a dangling edge is rejected: validate returns valid = false.
C30_DanglingEdge == (Validated /\ Dangling # {}) => ~graph.result.isValid

\* a validated graph whose trigger has an edge to an id that is no node
C30_Witness ==
  /\ Validated
  /\ graph.nodes = {"t"}
  /\ Dangling # {}
  /\ graph.result.isValid

\* ---- C31
\* the step in which executeNode returns for the node of e in flight and the
\* traversal goes on
StepCompletes(e) == task[e].pc = "exec" /\ task'[e].pc = "loop"

\* a traversal of e begins in this step
TraversalBegins(e) == ~Active(e) /\ task'[e].pc = "loop"

\* the targets of the edges leaving n, in the order of the edge array
EdgeTargetsInOrder(w, n) == TargetsOf(w, OutgoingEdges(w, n))

\* some node that completed in the run has an edge to n
SuccessorOfCompleted(e, w, n) ==
  \E m \in DOMAIN returned[e] : n \in SeqToSet(EdgeTargetsInOrder(w, m))

\* C31: traversal is depth-first over a LIFO work stack seeded with the start
\* node only: the node dispatched is the one on top of the stack; the
\* successors of the node that just completed go on top of it in edge order,
\* ahead of everything queued earlier; a dispatched node is the start node or
\* a successor of a node that completed.
C31_DepthFirst ==
  [][\A e \in ExecIds :
       LET w == task'[e].ctx.workflowId
       IN /\ (TraversalBegins(e) /\ resumes' = resumes) =>
                task'[e].stack = <<FindStartNode(w)>>
          /\ TraversalBegins(e) => Len(task'[e].stack) = 1
          /\ Dispatches(e) =>
                /\ task'[e].cur = Head(task[e].stack)
                /\ task'[e].stack = Tail(task[e].stack)
                /\ task'[e].cur = FindStartNode(w) \/ SuccessorOfCompleted(e, w, task'[e].cur)
          /\ StepCompletes(e) =>
                /\ task'[e].stack = Enqueued(e) \o task[e].stack
                /\ \/ Enqueued(e) = <<task[e].cur>> /\ TypeOf(w, task[e].cur) = "loop"
                   \/ /\ Enqueued(e) = NextNodes(w, task[e].cur, returned'[e][task[e].cur])
                      /\ Enqueued(e) = SelectSeq(EdgeTargetsInOrder(w, task[e].cur),
                                                 LAMBDA x : x \in SeqToSet(Enqueued(e)))]_vars

\* the diamond is walked depth-first: the join is dispatched before the
\* trigger's second successor
C31_Witness ==
  \E e \in DOMAIN execStore :
     /\ WfOf(e) = "diamond"
     /\ dispatched[e] = <<"trg", "act", "jn", "agt">>

\* ---- C32
\* the traversal of e in progress was started by a fresh run, not by a resume
FreshTraversal(e) == Active(e) /\ resumes = 0

\* the traversal of e has returned with one of the three statuses
TraversalEnded(e) ==
  task[e].pc = "done" /\ task[e].resStatus \in {"paused", "completed", "failed"}

\* C32: on any graph, cycles included, a traversal whose dispatches all return
\* ends with status paused, completed or failed; and during a traversal
\* started by a fresh run no node's visit counter exceeds the engine's
\* iteration cap.
C32_TraversalTerminates ==
  /\ [][\A e \in ExecIds :
          (Active(e) /\ resumes = 0 /\ resumes' = 0) =>
             \A n \in DOMAIN task'[e].ctx.nodeVisitCounts :
                task'[e].ctx.nodeVisitCounts[n] <= EngineMaxIterations]_vars
  /\ \A e \in ExecIds : Active(e) ~> TraversalEnded(e)

\* a fresh run over a cycle was stopped with a node at the cap
C32_Witness ==
  \E e \in DOMAIN execStore :
     /\ WfOf(e) = "cycle"
     /\ resumes = 0
     /\ TraversalEnded(e)
     /\ \E n \in DOMAIN task[e].ctx.nodeVisitCounts :
           task[e].ctx.nodeVisitCounts[n] = EngineMaxIterations
     /\ task[e].resError = "Maximum iterations exceeded"

\* ---- C33
\* resumeExecution re-enters the traversal of e, which had returned paused
ResumeReenters(e) ==
  /\ task[e].pc = "done"
  /\ task[e].resStatus = "paused"
  /\ resumes' = resumes + 1
  /\ task'[e].pc = "loop"

\* the nodes that were still on the work stack when the traversal returned
QueuedAtReturn(e) == SeqToSet(task[e].stack)

\* C33: the nodes still queued on the work stack when an execution pauses at a
\* gate are on the work stack of the traversal that resumes it: a pause/resume
\* cycle drops no queued node.
C33_ResumeKeepsQueue ==
  [][\A e \in ExecIds :
       ResumeReenters(e) => QueuedAtReturn(e) \subseteq SeqToSet(task'[e].stack)]_vars

\* the gate's sibling was queued at the pause; after the resume the traversal
\* has ended again without dispatching it
C33_Witness ==
  \E e \in DOMAIN execStore :
     /\ WfOf(e) = "forkgate"
     /\ resumes >= 1
     /\ task[e].pc = "done"
     /\ task[e].stack = <<>>
     /\ dispatched[e] = <<"trg", "apr", "apr">>

\* ---- C34
\* For one pending approval request at most one decision takes effect: when two
\* calls (approve and reject, or two approves) were issued for the same execution
\* while its request was pending and neither of them found it expired, exactly
\* one of them returns success and the persisted status is the one that call set.
DecisionsSettled == \A c \in DecisionCalls : decisions.calls[c].pc = "done"

IssuedWhilePending ==
  \A c \in DecisionCalls :
     /\ decisions.calls[c].pending
     /\ decisions.calls[c].error # "Approval request has expired"

SuccessfulCalls == {c \in DecisionCalls : decisions.calls[c].success}

C34_OneDecision ==
  (DecisionsSettled /\ IssuedWhilePending) =>
     /\ Cardinality(SuccessfulCalls) = 1
     /\ \A c \in SuccessfulCalls :
           /\ decisions.target \in DOMAIN execStore
           /\ execStore[decisions.target].status = DecisionStatus(decisions.calls[c].kind)

\* both calls returned success; the reject wrote first and the approve wrote last
C34_Witness ==
  /\ DecisionsSettled
  /\ IssuedWhilePending
  /\ SuccessfulCalls = DecisionCalls
  /\ decisions.calls[1].kind = "reject"
  /\ decisions.calls[2].kind = "approve"
  /\ execStore[decisions.target].status = "running"

\* ---- C35
\* In a run over an acyclic graph each node is dispatched at most once, even
\* when it is reachable from the start node along several paths (the join of a
\* diamond).  Loop nodes, which the engine re-queues by design, and resumed
\* runs, which dispatch the gate again, are left out of the statement.
WorkflowGraph(w) ==
  [nodes |-> NodeSet(w), type |-> Workflows[w].type, edges |-> Workflows[w].edges]

Acyclic(w) == ~DetectCycles(WorkflowGraph(w))

SeveralPaths(w, n) ==
  Cardinality({i \in 1..Len(Workflows[w].edges) : Workflows[w].edges[i].target = n}) > 1

C35_DispatchedOnce ==
  \A e \in DOMAIN execStore :
     (Acyclic(WfOf(e)) /\ resumes = 0) =>
        \A n \in NodeSet(WfOf(e)) :
           TypeOf(WfOf(e), n) # "loop" => Occurrences(dispatched[e], n) <= 1

\* the join of the diamond has been dispatched once per incoming path
C35_Witness ==
  \E e \in DOMAIN execStore :
     /\ WfOf(e) = "diamond"
     /\ Acyclic("diamond")
     /\ SeveralPaths("diamond", "jn")
     /\ resumes = 0
     /\ dispatched[e] = <<"trg", "act", "jn", "agt", "jn">>
     /\ execStore[e].status = "completed"

\* ---- C36
\* Whenever a run finishes with status completed, every node that was dispatched
\* in it has node status 'completed' and an entry in stepResults, no node has
\* status 'running' or 'failed', and the error field is unset -- in the context
\* executeFromNode returns and in the record it saved.
FinishedCompleted(e) == task[e].pc = "done" /\ task[e].resStatus = "completed"

AllStepsCompleted(ctx, e) ==
  /\ \A n \in SeqToSet(dispatched[e]) :
        /\ n \in DOMAIN ctx.nodeStatuses
        /\ ctx.nodeStatuses[n] = "completed"
        /\ n \in DOMAIN ctx.stepResults
  /\ \A n \in DOMAIN ctx.nodeStatuses : ctx.nodeStatuses[n] \notin {"running", "failed"}
  /\ ctx.error = NoError

C36_CompletedIsClean ==
  \A e \in ExecIds :
     FinishedCompleted(e) =>
        /\ AllStepsCompleted(task[e].ctx, e)
        /\ (e \in DOMAIN execStore /\ execStore[e].status = "completed")
              => AllStepsCompleted(execStore[e], e)

\* a run of the conditional workflow finished completed after three dispatches
C36_Witness ==
  \E e \in DOMAIN execStore :
     /\ FinishedCompleted(e)
     /\ execStore[e].status = "completed"
     /\ Len(dispatched[e]) >= 3
     /\ \E n \in SeqToSet(dispatched[e]) : TypeOf(WfOf(e), n) = "condition"

\* ---- C37
\* A condition or loop-exit expression that contains reflective or host access
\* is rejected without ever being executed: the expression text is never run
\* before the unsafe-code check has passed, so an unsafe text is never run.
RunsAfterCheck ==
  \A i \in 1..Len(evaln.log) :
     evaln.log[i] = "run" => \E j \in 1..(i - 1) : evaln.log[j] = "check_passed"

C37_UnsafeNeverRuns ==
  /\ RunsAfterCheck
  /\ ContainsUnsafeCode(evaln.expr) => \A i \in 1..Len(evaln.log) : evaln.log[i] # "run"

\* a text with `process.` was run by validateConfig's trial, then refused by the check
C37_Witness ==
  /\ evaln.pc = "done"
  /\ evaln.expr.pattern = "process."
  /\ evaln.log = <<"run", "check_failed">>

\* ---- C38
\* Between attempt k and attempt k+1 executeWithRetry sleeps
\* baseDelay * backoffFactor^(k-1); it never sleeps after the final attempt or
\* after a non-retryable failure, so on return totalDelayMs is the sum of
\* baseDelay * backoffFactor^(k-1) for k = 1 .. attempts-1.
RECURSIVE Power(_, _)
Power(b, k) == IF k = 0 THEN 1 ELSE b * Power(b, k - 1)

\* baseDelay * backoffFactor^(k-1), and whether that is a whole number
SleepAfter(k) ==
  (retry.retryDelayMs * Power(retry.backoffMultiplier.num, k - 1))
     \div Power(retry.backoffMultiplier.den, k - 1)

WholeSleep(k) ==
  (retry.retryDelayMs * Power(retry.backoffMultiplier.num, k - 1))
     % Power(retry.backoffMultiplier.den, k - 1) = 0

RECURSIVE SleepSum(_)
SleepSum(n) == IF n = 0 THEN 0 ELSE SleepSum(n - 1) + SleepAfter(n)

C38_BackoffSchedule ==
  /\ \A k \in 1..Len(retry.delays) : retry.delays[k] = SleepAfter(k) /\ WholeSleep(k)
  /\ Len(retry.delays) = IF retry.pc = "done" THEN Len(retry.outcomes) - 1
                          ELSE Len(retry.outcomes)
  /\ retry.pc = "done" =>
        /\ Len(retry.delays) = retry.result.attempts - 1
        /\ retry.result.totalDelayMs = SleepSum(retry.result.attempts - 1)

\* three attempts with the default delay of 1000 ms and factor 1.5: 1000 + 1500
C38_Witness ==
  /\ retry.pc = "done"
  /\ retry.result.attempts = 3
  /\ retry.backoffMultiplier = Fraction(3, 2)
  /\ retry.delays = <<1000, 1500>>
  /\ retry.result.totalDelayMs = 2500

\* ---- C39
\* Every raised error is classified into exactly one of the nine classes, and
\* the retry decision follows the policy table: a failure classified Timeout,
\* Network, RateLimit or Unknown is retried while the policy limit is not
\* reached, and one classified Auth, Permission or Config is never retried --
\* in the error handler's shouldRetry and in executeWithRetry under its
\* default policy.
RetryableClasses == {"TIMEOUT_ERROR", "NETWORK_ERROR", "RATE_LIMIT_ERROR", "UNKNOWN_ERROR"}

FatalClasses == {"AUTH_ERROR", "PERMISSION_ERROR", "CONFIG_ERROR"}

BelowLimits ==
  /\ classified.retryCount < ErrorHandlerMaxRetries
  /\ classified.retryCount + 1 < DefaultMaxRetries

BothDecided == classified.handled /\ classified.attempted

C39_PolicyTable ==
  /\ classified.handled => classified.code \in ErrorCodes
  /\ BothDecided =>
        /\ (classified.code \in RetryableClasses /\ BelowLimits)
              => (classified.shouldRetry /\ classified.retried)
        /\ classified.code \in FatalClasses
              => (~classified.shouldRetry /\ ~classified.retried)

\* a message without any marker is classified Unknown; the handler says retry,
\* executeWithRetry returns after the first attempt
C39_Witness ==
  /\ BothDecided
  /\ BelowLimits
  /\ classified.message = {}
  /\ classified.code = "UNKNOWN_ERROR"
  /\ classified.shouldRetry
  /\ ~classified.retried

\* ---- C40
\* For a graph whose edges reference only existing nodes, detectCycles returns a
\* non-empty list exactly when the edges contain a directed cycle, and every
\* reported cycle is a path slice v1 .. vk in which each vi -> vi+1 and
\* vk -> v1 is an edge of the graph.
EdgesReferToNodes == EdgeEnds(graph) \subseteq graph.nodes

IsEdge(x, y) ==
  \E i \in 1..Len(graph.edges) : graph.edges[i].source = x /\ graph.edges[i].target = y

RECURSIVE Walk(_, _)
\* the ids that can be reached from x along k or fewer edges, at least one
Walk(S, k) ==
  IF k = 0 THEN {}
  ELSE LET step == {y \in GraphIds : \E x \in S : IsEdge(x, y)}
       IN step \cup Walk(step, k - 1)

HasDirectedCycle == \E x \in GraphIds : x \in Walk({x}, Len(graph.edges))

IsCycleOfGraph(c) ==
  /\ Len(c) >= 1
  /\ \A i \in 1..(Len(c) - 1) : IsEdge(c[i], c[i + 1])
  /\ IsEdge(c[Len(c)], c[1])

C40_DetectCycles ==
  (graph.pc = "done" /\ EdgesReferToNodes) =>
     /\ (graph.cycles # <<>>) <=> HasDirectedCycle
     /\ \A i \in 1..Len(graph.cycles) : IsCycleOfGraph(graph.cycles[i])

\* the cycle a -> b -> a entered from t is reported as the slice <<a, b>>
C40_Witness ==
  /\ graph.pc = "done"
  /\ EdgesReferToNodes
  /\ graph.nodes = GraphIds
  /\ graph.edges = <<Edge("t", "a", "none"), Edge("a", "b", "none"), Edge("b", "a", "none")>>
  /\ graph.cycles = <<(<<"a", "b">>)>>

====
